---- MODULE Spec2Model ----
(***************************************************************************)
(* Formula grid: the dependency graph (dependency_graph.py), the reference *)
(* parser (formula_parser.py) and the evaluation pass                      *)
(* (enhanced_formula_engine.py) as state machines.                         *)
(*                                                                         *)
(* Strings are sequences of one-character strings, so that the regular     *)
(* expressions of the source are modelled by what they match.              *)
(***************************************************************************)
EXTENDS Integers, Sequences, FiniteSets, TLC

VARIABLES
    dependency_graph,   \* a DependencyGraph (the engine's self.dependency_graph)
    circular_dependency_errors, \* the engine's self.circular_dependency_errors
    req,                \* per request: the locals of its evaluate_formulas call
    calls,              \* number of API calls made so far (bounded)
    last,               \* the last API call and what it returned
    added               \* per formula cell: the dependency set it was last added with

vars == <<dependency_graph, circular_dependency_errors, req, calls, last, added>>

(* ------------------------------ bounds -------------------------------- *)

\* Number of add_formula / mark_cell_evaluated calls in one behaviour.
MaxCalls == 4

\* Number of columns of a one-row grid.
MaxCols == 3

\* Number of evaluate_formulas calls made one after the other.
MaxPasses == 3

\* Longest column name converted, and greatest column number converted.
MaxLetters == 2
MaxColumnNumber == 750

(* --------------------------- cell coordinates -------------------------- *)

\* CellRef(column, row): dependency_graph.py, class CellRef.
CellRef(column, row) == [column |-> column, row |-> row]

\* Column keys and rows of the cells that occur in the model.
Keys == {<<"A">>, <<"B">>, <<"C">>}
Rows == {1, 2}
Cells == {CellRef(k, r) : k \in Keys, r \in Rows}

A1 == CellRef(<<"A">>, 1)
B1 == CellRef(<<"B">>, 1)
C1 == CellRef(<<"C">>, 1)

\* The requests that can be in progress at the same time.
Requests == {1, 2}

(* ------------------------------ helpers -------------------------------- *)

\* The elements of a set in one iteration order.
RECURSIVE SetToSeq(_)
SetToSeq(S) ==
    IF S = {} THEN <<>>
    ELSE LET x == CHOOSE y \in S : TRUE IN <<x>> \o SetToSeq(S \ {x})

\* Every order in which a set can be iterated.
RECURSIVE Perms(_)
Perms(S) ==
    IF S = {} THEN {<<>>}
    ELSE UNION {{<<x>> \o p : p \in Perms(S \ {x})} : x \in S}

Range(s) == {s[i] : i \in DOMAIN s}

\* body applied to a value: binds the value of an expression to a name.
With(value, Body(_)) == Body(value)

\* The least element of a set of numbers, 0 for the empty set.
Least(S) == IF S = {} THEN 0 ELSE CHOOSE x \in S : \A y \in S : x <= y

Remove(s, x) == SelectSeq(s, LAMBDA y : y # x)

(* ------------------------------- strings ------------------------------- *)

UpperLetters == <<"A", "B", "C", "D", "E", "F", "G", "H", "I", "J", "K", "L", "M",
                  "N", "O", "P", "Q", "R", "S", "T", "U", "V", "W", "X", "Y", "Z">>
LowerLetters == <<"a", "b", "c", "d", "e", "f", "g", "h", "i", "j", "k", "l", "m",
                  "n", "o", "p", "q", "r", "s", "t", "u", "v", "w", "x", "y", "z">>
DigitChars == <<"0", "1", "2", "3", "4", "5", "6", "7", "8", "9">>

\* The character classes [A-Z], \d and \w of the regular expressions.
UpperClass == Range(UpperLetters)
DigitClass == Range(DigitChars)
WordClass == UpperClass \cup Range(LowerLetters) \cup DigitClass \cup {"_"}

\* str.upper().
Upper(s) ==
    [i \in DOMAIN s |->
        IF \E k \in DOMAIN LowerLetters : LowerLetters[k] = s[i]
        THEN UpperLetters[CHOOSE k \in DOMAIN LowerLetters : LowerLetters[k] = s[i]]
        ELSE s[i]]

\* str.startswith(prefix).
StartsWith(s, prefix) ==
    Len(s) >= Len(prefix) /\ SubSeq(s, 1, Len(prefix)) = prefix

\* ord(char) - ord('A') for an upper-case letter.
LetterIndex(char) == (CHOOSE k \in DOMAIN UpperLetters : UpperLetters[k] = char) - 1

\* int(text) for a string of digits.
RECURSIVE ToInt(_)
ToInt(digits) ==
    IF digits = <<>> THEN 0
    ELSE 10 * ToInt(SubSeq(digits, 1, Len(digits) - 1))
         + ((CHOOSE k \in DOMAIN DigitChars : DigitChars[k] = digits[Len(digits)]) - 1)

\* str(n) for a natural number, and for an integer.
RECURSIVE NatToStr(_)
NatToStr(n) ==
    IF n < 10 THEN <<DigitChars[n + 1]>>
    ELSE Append(NatToStr(n \div 10), DigitChars[(n % 10) + 1])

IntToStr(n) == IF n < 0 THEN <<"-">> \o NatToStr(-n) ELSE NatToStr(n)

\* The last index of the longest run of characters of class cls that starts
\* at i (i - 1 when s[i] is not in cls): what a greedy [..]+ consumes.
RunEnd(s, i, cls) ==
    IF i > Len(s) \/ s[i] \notin cls THEN i - 1
    ELSE CHOOSE j \in i..Len(s) :
            /\ \A k \in i..j : s[k] \in cls
            /\ (j = Len(s) \/ s[j + 1] \notin cls)

\* \b between positions i - 1 and i of s.
WordBoundary(s, i) ==
    (i > 1 /\ s[i - 1] \in WordClass) # (i <= Len(s) /\ s[i] \in WordClass)

\* ([A-Z]+)(\d+) matched at position i: [ok, column, row, end].
MatchCellAt(s, i) ==
    With(RunEnd(s, i, UpperClass), LAMBDA j :
    With(RunEnd(s, j + 1, DigitClass), LAMBDA k :
        IF j >= i /\ k > j
        THEN [ok |-> TRUE, column |-> SubSeq(s, i, j),
              row |-> ToInt(SubSeq(s, j + 1, k)), end |-> k]
        ELSE [ok |-> FALSE, column |-> <<>>, row |-> 0, end |-> i]))

\* ([A-Z]+)(\d+):([A-Z]+)(\d+) matched at position i.
MatchRangeAt(s, i) ==
    With(MatchCellAt(s, i), LAMBDA a :
    With(MatchCellAt(s, a.end + 2), LAMBDA b :
        IF a.ok /\ a.end + 1 <= Len(s) /\ s[a.end + 1] = ":" /\ b.ok
        THEN [ok |-> TRUE, start_col |-> a.column, start_row |-> a.row,
              end_col |-> b.column, end_row |-> b.row, end |-> b.end]
        ELSE [ok |-> FALSE, start_col |-> <<>>, start_row |-> 0,
              end_col |-> <<>>, end_row |-> 0, end |-> i]))

\* re.match(r'^([A-Z]+)(\d+)$', s).
MatchWholeCell(s) ==
    With(MatchCellAt(s, 1), LAMBDA m :
        IF m.ok /\ m.end = Len(s) THEN m ELSE [m EXCEPT !.ok = FALSE])

\* re.match(r'^([A-Z]+)(\d+):([A-Z]+)(\d+)$', s).
MatchWholeRange(s) ==
    With(MatchRangeAt(s, 1), LAMBDA m :
        IF m.ok /\ m.end = Len(s) THEN m ELSE [m EXCEPT !.ok = FALSE])

(* -------------------------------- values -------------------------------- *)

\* Python values of grid cells and results: None, a str, a number.  Numbers are
\* exact fractions n/d in lowest terms (d > 0).
NoneV == [t |-> "none"]
StrV(s) == [t |-> "str", s |-> s]

RECURSIVE Gcd(_, _)
Gcd(a, b) == IF b = 0 THEN a ELSE Gcd(b, a % b)

Abs(x) == IF x < 0 THEN -x ELSE x

NumV(n, d) ==
    IF n = 0 THEN [t |-> "num", n |-> 0, d |-> 1]
    ELSE With(Gcd(Abs(n), d), LAMBDA g :
            [t |-> "num", n |-> n \div g, d |-> d \div g])

IntV(n) == [t |-> "num", n |-> n, d |-> 1]

IsStr(v) == v.t = "str"
IsNum(v) == v.t = "num"

NumAdd(a, b) == NumV(a.n * b.d + b.n * a.d, a.d * b.d)
NumSub(a, b) == NumV(a.n * b.d - b.n * a.d, a.d * b.d)
NumMul(a, b) == NumV(a.n * b.n, a.d * b.d)
NumDiv(a, b) == NumV((IF b.n < 0 THEN -1 ELSE 1) * a.n * b.d, a.d * Abs(b.n))
NumLess(a, b) == a.n * b.d < b.n * a.d

\* The error tokens.
ErrorToken == <<"#", "E", "R", "R", "O", "R", "!">>
NameToken == <<"#", "N", "A", "M", "E", "?">>

\* A division token whose text holds a digit other than 0.
DivTokenWithOne == <<"#", "D", "I", "V", "/", "1", "!">>

\* The token of a division by zero.
DivToken == <<"#", "D", "I", "V", "/", "0", "!">>

(* ---------------------------- FormulaParser ---------------------------- *)

\* FormulaParser._column_to_number.
RECURSIVE ColumnToNumber(_)
ColumnToNumber(col) ==
    IF col = <<>> THEN 0
    ELSE ColumnToNumber(SubSeq(col, 1, Len(col) - 1)) * 26
         + (LetterIndex(Upper(col)[Len(col)]) + 1)

\* _number_to_column without the adjustment `num -= 1` of its loop.
RECURSIVE NumberToColumnUnadjusted(_)
NumberToColumnUnadjusted(num) ==
    IF num > 0
    THEN Append(NumberToColumnUnadjusted(num \div 26), UpperLetters[(num % 26) + 1])
    ELSE <<>>

\* FormulaParser._number_to_column.
RECURSIVE NumberToColumn(_)
NumberToColumn(num) ==
    IF num > 0
    THEN Append(NumberToColumn((num - 1) \div 26), UpperLetters[((num - 1) % 26) + 1])
    ELSE <<>>

\* min and max of two numbers.
Min2(a, b) == IF a > b THEN b ELSE a
Max2(a, b) == IF a > b THEN a ELSE b

\* _expand_range without the normalisation of the corners: the loops run from
\* the first corner to the second as given.
ExpandRangeAsGiven(start_col, start_row, end_col, end_row) ==
    {CellRef(NumberToColumn(col_num), row) :
        col_num \in ColumnToNumber(start_col)..ColumnToNumber(end_col),
        row \in start_row..end_row}

\* FormulaParser._expand_range.
ExpandRange(start_col, start_row, end_col, end_row) ==
    With(ColumnToNumber(start_col), LAMBDA start_col_num :
    With(ColumnToNumber(end_col), LAMBDA end_col_num :
        {CellRef(NumberToColumn(col_num), row) :
            col_num \in Min2(start_col_num, end_col_num)
                        ..Max2(start_col_num, end_col_num),
            row \in Min2(start_row, end_row)..Max2(start_row, end_row)}))

\* range_pattern.findall(text) from position i on: \b...\b around the range.
RECURSIVE FindRanges(_, _)
FindRanges(text, i) ==
    IF i > Len(text) THEN <<>>
    ELSE With(MatchRangeAt(text, i), LAMBDA m :
            IF m.ok /\ WordBoundary(text, i) /\ WordBoundary(text, m.end + 1)
            THEN <<m>> \o FindRanges(text, m.end + 1)
            ELSE FindRanges(text, i + 1))

\* range_pattern.sub('', text) from position i on.
RECURSIVE RemoveRanges(_, _)
RemoveRanges(text, i) ==
    IF i > Len(text) THEN <<>>
    ELSE With(MatchRangeAt(text, i), LAMBDA m :
            IF m.ok /\ WordBoundary(text, i) /\ WordBoundary(text, m.end + 1)
            THEN RemoveRanges(text, m.end + 1)
            ELSE <<text[i]>> \o RemoveRanges(text, i + 1))

\* cell_pattern.findall(text) from position i on.
RECURSIVE FindCells(_, _)
FindCells(text, i) ==
    IF i > Len(text) THEN <<>>
    ELSE With(MatchCellAt(text, i), LAMBDA m :
            IF m.ok /\ WordBoundary(text, i) /\ WordBoundary(text, m.end + 1)
            THEN <<m>> \o FindCells(text, m.end + 1)
            ELSE FindCells(text, i + 1))

\* FormulaParser.extract_dependencies (text is formula.upper() without the
\* leading '=').
ExtractDependencies(formula) ==
    With(Upper(IF StartsWith(formula, <<"=">>) THEN Tail(formula) ELSE formula),
         LAMBDA text :
        LET range_matches == FindRanges(text, 1)
            formula_without_ranges == RemoveRanges(text, 1)
            cell_matches == FindCells(formula_without_ranges, 1)
        IN UNION {ExpandRange(m.start_col, m.start_row, m.end_col, m.end_row)
                    : m \in Range(range_matches)}
           \cup {CellRef(m.column, m.row) : m \in Range(cell_matches)})

(* ------------------------- expression evaluator ------------------------ *)

\* str.strip() (blanks).
RECURSIVE LStrip(_)
LStrip(s) == IF s # <<>> /\ Head(s) = " " THEN LStrip(Tail(s)) ELSE s

RECURSIVE RStrip(_)
RStrip(s) ==
    IF s # <<>> /\ s[Len(s)] = " " THEN RStrip(SubSeq(s, 1, Len(s) - 1)) ELSE s

Strip(s) == RStrip(LStrip(s))

RECURSIVE Pow10(_)
Pow10(k) == IF k = 0 THEN 1 ELSE 10 * Pow10(k - 1)

\* float(body) for an unsigned decimal literal (digits, one optional point):
\* [ok, v]; ok = FALSE stands for ValueError.
ParseUnsigned(body) ==
    LET dots == {i \in DOMAIN body : body[i] = "."}
        digits == SelectSeq(body, LAMBDA c : c \in DigitClass)
        frac_len == IF dots = {} THEN 0
                    ELSE Len(body) - (CHOOSE i \in dots : TRUE)
    IN IF /\ \A i \in DOMAIN body : body[i] \in DigitClass \cup {"."}
          /\ Cardinality(dots) <= 1
          /\ digits # <<>>
       THEN [ok |-> TRUE, v |-> NumV(ToInt(digits), Pow10(frac_len))]
       ELSE [ok |-> FALSE, v |-> IntV(0)]

\* float(text) for decimal literals (sign, digits, one optional point).
\* Exponents, inf, nan and underscores are not modelled.
ParseFloat(text) ==
    With(Strip(text), LAMBDA t :
        IF t # <<>> /\ t[1] \in {"-", "+"}
        THEN With(ParseUnsigned(Tail(t)), LAMBDA m :
                IF t[1] = "-" THEN [m EXCEPT !.v.n = -@] ELSE m)
        ELSE ParseUnsigned(t))

\* The fractional digits of n/d (0 <= n < d) by long division; d divides a
\* power of ten for every number the model renders.
RECURSIVE FracDigits(_, _)
FracDigits(n, d) ==
    IF n = 0 THEN <<>>
    ELSE <<DigitChars[((10 * n) \div d) + 1]>> \o FracDigits((10 * n) % d, d)

\* EnhancedFormulaEngine._format_number for a number.
FormatNumber(value) ==
    IF value.d = 1 THEN IntToStr(value.n)
    ELSE (IF value.n < 0 THEN <<"-">> ELSE <<>>)
         \o NatToStr(Abs(value.n) \div value.d) \o <<".">>
         \o FracDigits(Abs(value.n) % value.d, value.d)

\* re.sub(r'[^\d\.\-]', '', value).
Cleaned(s) == SelectSeq(s, LAMBDA c : c \in DigitClass \cup {".", "-"})

\* float(text) if it parses, else 0 (the except of _get_numeric_value).
FloatOrZero(text) ==
    With(ParseFloat(text), LAMBDA m : IF m.ok THEN m.v ELSE IntV(0))

\* EnhancedFormulaEngine._get_numeric_value.
GetNumericValue(value) ==
    IF IsNum(value) THEN value
    ELSE IF IsStr(value)
    THEN With(Cleaned(value.s), LAMBDA cleaned :
            IF cleaned = <<>> THEN IntV(0) ELSE FloatOrZero(cleaned))
    ELSE IntV(0)

\* dict.get(key, default) on a grid row.
RowGet(row, key, default) == IF key \in DOMAIN row THEN row[key] ELSE default

\* EnhancedFormulaEngine._find_column_by_letter: the index of the column, 0 for None.
FindColumnByLetter(letter, columns_context) ==
    IF \E i \in DOMAIN columns_context : columns_context[i].key = letter
    THEN CHOOSE i \in DOMAIN columns_context :
            /\ columns_context[i].key = letter
            /\ \A j \in 1..(i - 1) : columns_context[j].key # letter
    ELSE 0

\* EnhancedFormulaEngine._letter_to_column_key: the key, <<>> for None.
LetterToColumnKey(letter, columns_context) ==
    With(FindColumnByLetter(letter, columns_context), LAMBDA i :
        IF i = 0 THEN <<>> ELSE columns_context[i].key)

\* EnhancedFormulaEngine._get_cell_value (row_index is 0-based).
GetCellValue(col_ref, row_index, data_context, columns_context) ==
    IF row_index < 0 \/ row_index >= Len(data_context) THEN IntV(0)
    ELSE With(FindColumnByLetter(col_ref, columns_context), LAMBDA i :
            IF i = 0 THEN IntV(0)
            ELSE GetNumericValue(RowGet(data_context[row_index + 1],
                                        columns_context[i].key, IntV(0))))

\* EnhancedFormulaEngine._parse_value.
ParseValue(value, data_context, columns_context) ==
    With(MatchWholeCell(value), LAMBDA cell_ref_match :
        IF cell_ref_match.ok
        THEN GetCellValue(cell_ref_match.column, cell_ref_match.row - 1,
                          data_context, columns_context)
        ELSE GetNumericValue(StrV(value)))

\* _perform_arithmetic without the test of the divisor: the division by zero
\* raises, and the handler of the function returns '#ERROR!'.
PerformArithmeticUnguarded(left, operator, right) ==
    CASE operator = "+" -> NumAdd(left, right)
      [] operator = "-" -> NumSub(left, right)
      [] operator = "*" -> NumMul(left, right)
      [] operator = "/" -> IF right.n # 0 THEN NumDiv(left, right) ELSE StrV(ErrorToken)
      [] OTHER -> StrV(ErrorToken)

\* EnhancedFormulaEngine._perform_arithmetic.
PerformArithmetic(left, operator, right) ==
    CASE operator = "+" -> NumAdd(left, right)
      [] operator = "-" -> NumSub(left, right)
      [] operator = "*" -> NumMul(left, right)
      [] operator = "/" -> IF right.n # 0 THEN NumDiv(left, right) ELSE StrV(DivToken)
      [] OTHER -> StrV(ErrorToken)

\* The sum of f[x] over the elements x of S.
RECURSIVE SumOf(_, _)
SumOf(f, S) ==
    IF S = {} THEN IntV(0)
    ELSE With(CHOOSE y \in S : TRUE, LAMBDA x : NumAdd(f[x], SumOf(f, S \ {x})))

\* range(start_row_idx, min(end_row_idx + 1, len(data_context))) with row_idx >= 0.
RangeRows(start_row_idx, end_row_idx, data_context) ==
    {i \in start_row_idx..(end_row_idx) : i >= 0 /\ i < Len(data_context)}

\* str.split(',') with each part stripped.
RECURSIVE SplitCommas(_)
SplitCommas(s) ==
    IF \E i \in DOMAIN s : s[i] = ","
    THEN With(CHOOSE k \in DOMAIN s : s[k] = "," /\ \A j \in 1..(k - 1) : s[j] # ",",
              LAMBDA i :
                <<Strip(SubSeq(s, 1, i - 1))>> \o SplitCommas(SubSeq(s, i + 1, Len(s))))
    ELSE <<Strip(s)>>

\* float(text) if it parses, else '#ERROR!' (the except of the callers).
FloatOrError(text) ==
    With(ParseFloat(text), LAMBDA m : IF m.ok THEN m.v ELSE StrV(ErrorToken))

\* One element of a comma-separated SUM: [ok, v].
SumElement(cell_ref, data_context, columns_context) ==
    With(MatchWholeCell(cell_ref), LAMBDA cell_match :
        IF cell_match.ok
        THEN [ok |-> TRUE,
              v |-> GetCellValue(cell_match.column, cell_match.row - 1,
                                 data_context, columns_context)]
        ELSE ParseFloat(cell_ref))

\* _calculate_sum for a range: the loops over rows and columns.
SumRange(range_match, data_context, columns_context) ==
    With(RangeRows(range_match.start_row - 1, range_match.end_row - 1, data_context)
            \X (LetterIndex(range_match.start_col[1])
                ..LetterIndex(range_match.end_col[1])),
         LAMBDA cells :
            SumOf([c \in cells |->
                    GetCellValue(<<UpperLetters[c[2] + 1]>>, c[1],
                                 data_context, columns_context)],
                  cells))

\* The cells the loops of _calculate_sum visit for a range.
SummedCells(range_match, data_context) ==
    {CellRef(<<UpperLetters[col_idx + 1]>>, row_idx + 1) :
        row_idx \in RangeRows(range_match.start_row - 1, range_match.end_row - 1,
                              data_context),
        col_idx \in LetterIndex(range_match.start_col[1])
                        ..LetterIndex(range_match.end_col[1])}

\* _calculate_sum for comma-separated values.
SumList(cell_refs, data_context, columns_context) ==
    With([i \in DOMAIN cell_refs |->
            SumElement(cell_refs[i], data_context, columns_context)],
         LAMBDA parts :
            IF \E i \in DOMAIN parts : ~parts[i].ok THEN StrV(ErrorToken)
            ELSE SumOf([i \in DOMAIN parts |-> parts[i].v], DOMAIN parts))

\* EnhancedFormulaEngine._calculate_sum.
CalculateSum(args_str0, data_context, columns_context) ==
    With(Strip(args_str0), LAMBDA args_str :
    With(MatchWholeRange(args_str), LAMBDA range_match :
        IF range_match.ok
        THEN \* ord() of a column of several letters raises TypeError
             IF Len(range_match.start_col) # 1 \/ Len(range_match.end_col) # 1
             THEN StrV(ErrorToken)
             ELSE SumRange(range_match, data_context, columns_context)
        ELSE IF \E i \in DOMAIN args_str : args_str[i] = ","
        THEN SumList(SplitCommas(args_str), data_context, columns_context)
        ELSE With(MatchWholeCell(args_str), LAMBDA cell_match :
                IF cell_match.ok
                THEN GetCellValue(cell_match.column, cell_match.row - 1,
                                  data_context, columns_context)
                ELSE FloatOrError(args_str))))

\* EnhancedFormulaEngine._calculate_average.
CalculateAverage(args_str0, data_context, columns_context) ==
    With(Strip(args_str0), LAMBDA args_str :
    With(MatchWholeRange(args_str), LAMBDA range_match :
    With(CalculateSum(args_str, data_context, columns_context), LAMBDA sum_result :
        IF range_match.ok
        THEN IF IsStr(sum_result) THEN sum_result
             ELSE With((LetterIndex(range_match.end_col[1])
                        - LetterIndex(range_match.start_col[1]) + 1)
                       * (range_match.end_row - range_match.start_row + 1),
                       LAMBDA count :
                         IF count > 0 THEN NumDiv(sum_result, IntV(count))
                         ELSE StrV(DivToken))
        ELSE IF \E i \in DOMAIN args_str : args_str[i] = ","
        THEN IF IsStr(sum_result) THEN sum_result
             ELSE NumDiv(sum_result, IntV(Len(SplitCommas(args_str))))
        ELSE IF MatchWholeCell(args_str).ok THEN sum_result
        ELSE FloatOrError(args_str))))

\* The values MIN and MAX range over: one per row of the range, read from the
\* column of the range's first corner.
MinMaxValues(range_match, data_context, columns_context) ==
    With(columns_context[FindColumnByLetter(range_match.start_col, columns_context)],
         LAMBDA column :
            {GetNumericValue(RowGet(data_context[i + 1], column.key, IntV(0))) :
                i \in RangeRows(range_match.start_row - 1, range_match.end_row - 1,
                                data_context)})

\* The range of MIN, MAX and COUNT: [ok, ...]; ok = FALSE when the argument is
\* not a range or its first column is not in the schema.
FunctionRange(range_str, columns_context) ==
    With(MatchWholeRange(Strip(range_str)), LAMBDA range_match :
        IF range_match.ok
           /\ FindColumnByLetter(range_match.start_col, columns_context) = 0
        THEN [range_match EXCEPT !.ok = FALSE]
        ELSE range_match)

\* EnhancedFormulaEngine._calculate_min.
CalculateMin(range_str, data_context, columns_context) ==
    With(FunctionRange(range_str, columns_context), LAMBDA range_match :
        IF ~range_match.ok THEN StrV(ErrorToken)
        ELSE With(MinMaxValues(range_match, data_context, columns_context),
                  LAMBDA values :
                    IF values = {} THEN IntV(0)
                    ELSE CHOOSE v \in values : \A w \in values : ~NumLess(w, v)))

\* EnhancedFormulaEngine._calculate_max.
CalculateMax(range_str, data_context, columns_context) ==
    With(FunctionRange(range_str, columns_context), LAMBDA range_match :
        IF ~range_match.ok THEN StrV(ErrorToken)
        ELSE With(MinMaxValues(range_match, data_context, columns_context),
                  LAMBDA values :
                    IF values = {} THEN IntV(0)
                    ELSE CHOOSE v \in values : \A w \in values : ~NumLess(v, w)))

\* `value and str(value).strip()` of _calculate_count.
CountsAsNonEmpty(value) ==
    CASE IsStr(value) -> Strip(value.s) # <<>>
      [] IsNum(value) -> value.n # 0
      [] OTHER -> FALSE

\* EnhancedFormulaEngine._calculate_count.
CalculateCount(range_str, data_context, columns_context) ==
    With(FunctionRange(range_str, columns_context), LAMBDA range_match :
        IF ~range_match.ok THEN StrV(ErrorToken)
        ELSE With(columns_context[FindColumnByLetter(range_match.start_col,
                                                     columns_context)],
                  LAMBDA column :
                    IntV(Cardinality(
                        {i \in RangeRows(range_match.start_row - 1,
                                         range_match.end_row - 1, data_context) :
                            CountsAsNonEmpty(RowGet(data_context[i + 1], column.key,
                                                    StrV(<<>>)))}))))

\* re.match(r'([A-Z]+)\(([^)]+)\)', expression): [ok, func_name, args].
MatchFunction(expression) ==
    With(RunEnd(expression, 1, UpperClass), LAMBDA j :
    With(Least({c \in DOMAIN expression : c > j + 1 /\ expression[c] = ")"}),
         LAMBDA k :
            IF j >= 1 /\ j + 1 <= Len(expression) /\ expression[j + 1] = "("
               /\ k >= j + 3
            THEN [ok |-> TRUE, func_name |-> SubSeq(expression, 1, j),
                  args |-> SubSeq(expression, j + 2, k - 1)]
            ELSE [ok |-> FALSE, func_name |-> <<>>, args |-> <<>>]))

\* re.match(r'^(.+?)([\+\-\*\/])(.+?)$', expression): [ok, left, operator, right].
MatchArithmetic(expression) ==
    With(Least({q \in DOMAIN expression :
                    /\ expression[q] \in {"+", "-", "*", "/"}
                    /\ q >= 2 /\ q < Len(expression)}),
         LAMBDA p :
            IF p # 0
            THEN [ok |-> TRUE, left |-> SubSeq(expression, 1, p - 1),
                  operator |-> expression[p],
                  right |-> SubSeq(expression, p + 1, Len(expression))]
            ELSE [ok |-> FALSE, left |-> <<>>, operator |-> "", right |-> <<>>])

\* self.functions[func_name](args, ...), '#NAME?' for an unknown name.
CallFunction(func_name, args, data_context, columns_context) ==
    CASE func_name = <<"S", "U", "M">> ->
            CalculateSum(args, data_context, columns_context)
      [] func_name = <<"A", "V", "E", "R", "A", "G", "E">> ->
            CalculateAverage(args, data_context, columns_context)
      [] func_name = <<"M", "I", "N">> ->
            CalculateMin(args, data_context, columns_context)
      [] func_name = <<"M", "A", "X">> ->
            CalculateMax(args, data_context, columns_context)
      [] func_name = <<"C", "O", "U", "N", "T">> ->
            CalculateCount(args, data_context, columns_context)
      [] OTHER -> StrV(NameToken)

\* _evaluate_formula for an expression that is neither a function call nor a
\* single cell reference: arithmetic, a number, or '#ERROR!'.
EvaluateArithmetic(expression, data_context, columns_context) ==
    With(MatchArithmetic(expression), LAMBDA arithmetic_match :
        IF arithmetic_match.ok
        THEN PerformArithmetic(
                ParseValue(Strip(arithmetic_match.left), data_context, columns_context),
                arithmetic_match.operator,
                ParseValue(Strip(arithmetic_match.right), data_context, columns_context))
        ELSE FloatOrError(expression))

\* EnhancedFormulaEngine._evaluate_formula: a number or an error token.
EvaluateFormula(formula, data_context, columns_context) ==
    With(Strip(Upper(Tail(formula))), LAMBDA expression :
    With(MatchFunction(expression), LAMBDA func_match :
    With(MatchWholeCell(expression), LAMBDA cell_ref_match :
        IF expression = <<>> THEN StrV(ErrorToken)
        ELSE IF func_match.ok
        THEN CallFunction(func_match.func_name, func_match.args,
                          data_context, columns_context)
        ELSE IF cell_ref_match.ok
        THEN GetCellValue(cell_ref_match.column, cell_ref_match.row - 1,
                          data_context, columns_context)
        ELSE EvaluateArithmetic(expression, data_context, columns_context))))

(* --------------------------- DependencyGraph --------------------------- *)

\* FormulaNode: one record per formula cell.
FormulaNode(formula, dependencies) ==
    [formula |-> formula, dependencies |-> dependencies, dependents |-> {},
     value |-> NoneV, is_evaluated |-> FALSE, has_error |-> FALSE,
     error_message |-> NoneV]

\* DependencyGraph.__init__.  nodes is the key order of the dict self.nodes,
\* node its values; the two defaultdicts are total maps (absent key = empty set).
NewGraph ==
    [nodes |-> <<>>,
     node |-> [c \in {} |-> NoneV],
     adjacency_list |-> [c \in Cells |-> {}],
     reverse_adjacency_list |-> [c \in Cells |-> {}],
     evaluation_order |-> <<>>,
     dirty_cells |-> {}]

NodeSet(g) == Range(g.nodes)

\* DependencyGraph._remove_node.
RemoveNode(g, cell_ref) ==
    IF cell_ref \notin NodeSet(g) THEN g
    ELSE
    LET node == g.node[cell_ref]
        rest == NodeSet(g) \ {cell_ref}
        \* Remove edges from dependencies
        adj1 == [d \in Cells |->
                    IF d \in node.dependencies
                    THEN g.adjacency_list[d] \ {cell_ref}
                    ELSE g.adjacency_list[d]]
        \* Remove edges to dependents
        rev1 == [d \in Cells |->
                    IF d \in node.dependents
                    THEN g.reverse_adjacency_list[d] \ {cell_ref}
                    ELSE g.reverse_adjacency_list[d]]
        node1 == [n \in rest |->
                    [g.node[n] EXCEPT
                        !.dependents =
                            IF n \in node.dependencies THEN @ \ {cell_ref} ELSE @,
                        !.dependencies =
                            IF n \in node.dependents THEN @ \ {cell_ref} ELSE @]]
    IN [g EXCEPT
            !.nodes = Remove(g.nodes, cell_ref),
            !.node = node1,
            \* Remove from adjacency lists
            !.adjacency_list = [adj1 EXCEPT ![cell_ref] = {}],
            !.reverse_adjacency_list = [rev1 EXCEPT ![cell_ref] = {}]]

\* has_cycle_dfs of _would_create_cycle: st = [visited, rec_stack, found].
RECURSIVE HasCycleDfs(_, _, _), HasCycleNeighbors(_, _, _)
HasCycleDfs(temp_adjacency, node, st) ==
    LET st0 == [visited |-> st.visited \cup {node},
                rec_stack |-> st.rec_stack \cup {node},
                found |-> FALSE]
        r == HasCycleNeighbors(temp_adjacency, SetToSeq(temp_adjacency[node]), st0)
    IN IF r.found THEN r ELSE [r EXCEPT !.rec_stack = @ \ {node}]

HasCycleNeighbors(temp_adjacency, neighbors, st) ==
    IF neighbors = <<>> THEN st
    ELSE LET neighbor == Head(neighbors) IN
         IF neighbor \notin st.visited
         THEN LET r == HasCycleDfs(temp_adjacency, neighbor, st) IN
              IF r.found THEN r
              ELSE HasCycleNeighbors(temp_adjacency, Tail(neighbors), r)
         ELSE IF neighbor \in st.rec_stack
         THEN [st EXCEPT !.found = TRUE]
         ELSE HasCycleNeighbors(temp_adjacency, Tail(neighbors), st)

\* The loop over all_nodes in _would_create_cycle.
RECURSIVE HasCycleRoots(_, _, _)
HasCycleRoots(temp_adjacency, roots, st) ==
    IF roots = <<>> THEN FALSE
    ELSE IF Head(roots) \in st.visited
    THEN HasCycleRoots(temp_adjacency, Tail(roots), st)
    ELSE LET r == HasCycleDfs(temp_adjacency, Head(roots), st) IN
         IF r.found THEN TRUE
         ELSE HasCycleRoots(temp_adjacency, Tail(roots), r)

\* _would_create_cycle that starts its search from the existing nodes only,
\* not from the new cell.
WouldCreateCycleFromOldNodes(g, new_cell, dependencies) ==
    LET temp_adjacency ==
            [c \in Cells |->
                g.adjacency_list[c] \cup
                (IF c \in dependencies THEN {new_cell} ELSE {})]
    IN HasCycleRoots(temp_adjacency, SetToSeq(NodeSet(g)),
                     [visited |-> {}, rec_stack |-> {}, found |-> FALSE])

\* DependencyGraph._would_create_cycle.
WouldCreateCycle(g, new_cell, dependencies) ==
    LET temp_adjacency ==
            [c \in Cells |->
                g.adjacency_list[c] \cup
                (IF c \in dependencies THEN {new_cell} ELSE {})]
        all_nodes == NodeSet(g) \cup {new_cell}
    IN HasCycleRoots(temp_adjacency, SetToSeq(all_nodes),
                     [visited |-> {}, rec_stack |-> {}, found |-> FALSE])

\* dfs of has_circular_dependency: st = [visited, rec_stack, cycle]; cycle is
\* <<>> while none has been found.
RECURSIVE CycleDfs(_, _, _, _), CycleNeighbors(_, _, _, _, _)
CycleDfs(g, node, path, st) ==
    LET st0 == [visited |-> st.visited \cup {node},
                rec_stack |-> st.rec_stack \cup {node},
                cycle |-> <<>>]
        current_path == Append(path, node)
        r == CycleNeighbors(g, node, SetToSeq(g.adjacency_list[node]), current_path, st0)
    IN IF r.cycle # <<>> THEN r ELSE [r EXCEPT !.rec_stack = @ \ {node}]

CycleNeighbors(g, node, neighbors, current_path, st) ==
    IF neighbors = <<>> THEN st
    ELSE LET neighbor == Head(neighbors) IN
         IF neighbor \notin st.visited
         THEN LET r == CycleDfs(g, neighbor, current_path, st) IN
              IF r.cycle # <<>> THEN r
              ELSE CycleNeighbors(g, node, Tail(neighbors), current_path, r)
         ELSE IF neighbor \in st.rec_stack
         THEN LET cycle_start == CHOOSE i \in DOMAIN current_path :
                                    /\ current_path[i] = neighbor
                                    /\ \A j \in 1..(i - 1) : current_path[j] # neighbor
              IN [st EXCEPT !.cycle =
                    Append(SubSeq(current_path, cycle_start, Len(current_path)),
                           neighbor)]
         ELSE CycleNeighbors(g, node, Tail(neighbors), current_path, st)

\* The loop over self.nodes in has_circular_dependency.
RECURSIVE CycleRoots(_, _, _)
CycleRoots(g, roots, st) ==
    IF roots = <<>> THEN [has_cycles |-> FALSE, cycle_path |-> <<>>]
    ELSE IF Head(roots) \in st.visited THEN CycleRoots(g, Tail(roots), st)
    ELSE LET r == CycleDfs(g, Head(roots), <<>>, st) IN
         IF r.cycle # <<>> THEN [has_cycles |-> TRUE, cycle_path |-> r.cycle]
         ELSE CycleRoots(g, Tail(roots), r)

\* DependencyGraph.has_circular_dependency: (has_cycles, cycle_path).
HasCircularDependency(g) ==
    CycleRoots(g, g.nodes, [visited |-> {}, rec_stack |-> {}, cycle |-> <<>>])

\* DependencyGraph._mark_dirty: the loop over dirty_queue.
RECURSIVE MarkDirtyLoop(_, _, _)
MarkDirtyLoop(g, dirty_queue, dirty_cells) ==
    IF dirty_queue = <<>> THEN dirty_cells
    ELSE LET current == Head(dirty_queue) IN
         IF current \in dirty_cells
         THEN MarkDirtyLoop(g, Tail(dirty_queue), dirty_cells)
         ELSE MarkDirtyLoop(g,
                Tail(dirty_queue) \o
                    (IF current \in NodeSet(g)
                     THEN SetToSeq(g.node[current].dependents) ELSE <<>>),
                dirty_cells \cup {current})

\* DependencyGraph._mark_dirty.
MarkDirty(g, cell_ref) == MarkDirtyLoop(g, <<cell_ref>>, g.dirty_cells)

\* in_degree that counts every dependency, formula node or not.
InDegreeCountsAllDependencies(g) ==
    [n \in NodeSet(g) |-> Cardinality(g.node[n].dependencies)]

\* in_degree of _update_evaluation_order: dependencies that are formula nodes.
InDegree(g) ==
    [n \in NodeSet(g) |-> Cardinality(g.node[n].dependencies \cap NodeSet(g))]

\* The while loop of _update_evaluation_order (Kahn's algorithm).  The result
\* is the set of orders the loop can produce: the dependents of a node are a
\* Python set, iterated in an order that depends on the hash seed.
RECURSIVE KahnLoop(_, _, _, _)
KahnLoop(g, queue, result, in_degree) ==
    IF queue = <<>> THEN {result}
    ELSE LET current == Head(queue)
             dependents == g.adjacency_list[current] \cap NodeSet(g)
             in_degree1 == [n \in DOMAIN in_degree |->
                              IF n \in dependents THEN in_degree[n] - 1
                              ELSE in_degree[n]]
             ready == {d \in dependents : in_degree1[d] = 0}
         IN UNION {KahnLoop(g, Tail(queue) \o p, Append(result, current), in_degree1)
                     : p \in Perms(ready)}

\* _update_evaluation_order without Kahn's loop: the nodes in insertion order.
UpdateEvaluationOrderAsInserted(g) == {g.nodes}

\* DependencyGraph._update_evaluation_order: the orders it can store.
UpdateEvaluationOrder(g) ==
    IF g.nodes = <<>> THEN {<<>>}
    ELSE KahnLoop(g, SelectSeq(g.nodes, LAMBDA n : InDegree(g)[n] = 0),
                  <<>>, InDegree(g))

\* add_formula, lines 73-83: insert the node and its edges.
InsertNode(g, cell_ref, formula, dependencies) ==
    LET all == NodeSet(g) \cup {cell_ref}
        node0 == [n \in all |->
                    IF n = cell_ref THEN FormulaNode(formula, dependencies)
                    ELSE g.node[n]]
    IN [g EXCEPT
            !.nodes = Append(g.nodes, cell_ref),
            !.node = [n \in all |->
                        IF n \in dependencies
                        THEN [node0[n] EXCEPT !.dependents = @ \cup {cell_ref}]
                        ELSE node0[n]],
            !.adjacency_list =
                [d \in Cells |->
                    IF d \in dependencies THEN @[d] \cup {cell_ref} ELSE @[d]],
            !.reverse_adjacency_list =
                [@ EXCEPT ![cell_ref] = @ \cup dependencies]]

\* add_formula with the node stored before the cycle check: a rejected add
\* leaves the node and its edges behind.
AddFormulaStoresBeforeCheck(g, cell_ref, formula, dependencies) ==
    LET g1 == IF cell_ref \in NodeSet(g) THEN RemoveNode(g, cell_ref) ELSE g
        g2 == InsertNode(g1, cell_ref, formula, dependencies)
    IN IF WouldCreateCycle(g1, cell_ref, dependencies)
       THEN {[ok |-> FALSE, g |-> g2]}
       ELSE LET g3 == [g2 EXCEPT !.dirty_cells = MarkDirty(g2, cell_ref)]
            IN {[ok |-> TRUE, g |-> [g3 EXCEPT !.evaluation_order = o]]
                   : o \in UpdateEvaluationOrder(g3)}

\* DependencyGraph.add_formula: the set of outcomes [ok, g] of one call.
AddFormula(g, cell_ref, formula, dependencies) ==
    LET g1 == IF cell_ref \in NodeSet(g) THEN RemoveNode(g, cell_ref) ELSE g IN
    IF WouldCreateCycle(g1, cell_ref, dependencies)
    THEN {[ok |-> FALSE, g |-> g1]}
    ELSE LET g2 == InsertNode(g1, cell_ref, formula, dependencies)
             g3 == [g2 EXCEPT !.dirty_cells = MarkDirty(g2, cell_ref)]
         IN {[ok |-> TRUE, g |-> [g3 EXCEPT !.evaluation_order = o]]
                : o \in UpdateEvaluationOrder(g3)}

\* DependencyGraph.get_evaluation_order.
GetEvaluationOrder(g) == g.evaluation_order

\* DependencyGraph.mark_cell_evaluated.
MarkCellEvaluated(g, cell_ref, value, has_error, error_message) ==
    IF cell_ref \in NodeSet(g)
    THEN [g EXCEPT
            !.node[cell_ref] =
                [@ EXCEPT !.value = value, !.is_evaluated = TRUE,
                          !.has_error = has_error,
                          !.error_message = error_message],
            !.dirty_cells = @ \ {cell_ref}]
    ELSE g

(* ------------------------ EnhancedFormulaEngine ------------------------ *)

\* A Python list of grid rows (a grid that is not None).
ListV(rows) == [t |-> "list", rows |-> rows]

\* Python dicts: {} , d[key] = value , {**a, **b}.
EmptyDict == [k \in {} |-> NoneV]
DictSet(d, key, value) ==
    [k \in DOMAIN d \cup {key} |-> IF k = key THEN value ELSE d[k]]
\* {**a, **b} that keeps only a.
DictMergeKeepsFirst(a, b) == a

DictMerge(a, b) ==
    [k \in DOMAIN a \cup DOMAIN b |-> IF k \in DOMAIN b THEN b[k] ELSE a[k]]

\* A message of the engine that is a fixed text.
Msg(text) == [text |-> text]

\* CellRef.__str__.
CellStr(cell_ref) == cell_ref.column \o NatToStr(cell_ref.row)

\* f"{row_index}-{column_key}".
CellKey(row_index, column_key) == IntToStr(row_index) \o <<"-">> \o column_key

\* DependencyGraph.get_graph_stats.
SetMax(S) == IF S = {} THEN 0 ELSE CHOOSE x \in S : \A y \in S : y <= x
GetGraphStats(g) ==
    [total_formulas |-> Len(g.nodes),
     dirty_cells |-> Cardinality(g.dirty_cells),
     evaluation_order_length |-> Len(g.evaluation_order),
     has_cycles |-> HasCircularDependency(g).has_cycles,
     max_dependencies |->
        SetMax({Cardinality(g.node[n].dependencies) : n \in NodeSet(g)}),
     max_dependents |->
        SetMax({Cardinality(g.node[n].dependents) : n \in NodeSet(g)})]

\* EnhancedFormulaEngine.__init__: the fields evaluate_formulas works on.
NewEngine ==
    [dependency_graph |-> NewGraph, circular_dependency_errors |-> EmptyDict]

\* The locals of one call of evaluate_formulas(data, columns), and where the
\* call is (pc).  scan is the number of grid cells the loop of
\* _build_dependency_graph has passed, idx the position in evaluation_order.
\* adds and evals record, for the properties, what the call did: the
\* add_formula calls with what they returned, and for each evaluated cell the
\* formula cells it references whose result was not yet in new_data.
IdleRequest ==
    [pc |-> "idle", data |-> NoneV, columns |-> <<>>, scan |-> 0,
     evaluation_order |-> <<>>, idx |-> 0, new_data |-> <<>>,
     evaluation_stats |-> [evaluated |-> 0, errors |-> 0, cached |-> 0],
     cell_errors |-> EmptyDict, result |-> NoneV,
     adds |-> <<>>, evals |-> <<>>, written |-> {}]

NewRequest(data, columns) ==
    [IdleRequest EXCEPT !.pc = "begin", !.data = data, !.columns = columns]

\* cell_value.startswith('=') for a str cell_value (line 179).
IsFormula(cell_value) == IsStr(cell_value) /\ StartsWith(cell_value.s, <<"=">>)

\* The loops of lines 176-178: the k-th cell (from 0) they visit.
ScanRowIndex(columns, k) == k \div Len(columns)
ScanColumn(columns, k) == columns[(k % Len(columns)) + 1]
ScanValue(rows, columns, k) ==
    RowGet(rows[ScanRowIndex(columns, k) + 1], ScanColumn(columns, k).key,
           StrV(<<>>))

\* The next formula cell the loops reach from position from, -1 if none.
NextFormulaPos(rows, columns, from) ==
    With({k \in from..(Len(rows) * Len(columns) - 1) :
            IsFormula(ScanValue(rows, columns, k))},
         LAMBDA ks : IF ks = {} THEN -1 ELSE Least(ks))

\* Lines 181-187: the parsed references mapped to column keys.
MappedDependencies(cell_value, columns) ==
    {CellRef(LetterToColumnKey(dep.column, columns), dep.row) :
        dep \in {d \in ExtractDependencies(cell_value) :
                    LetterToColumnKey(d.column, columns) # <<>>}}

\* EnhancedFormulaEngine._validate_dependencies.  Its column test reads the
\* bound method self._letter_to_column_key, which is never falsy.
ValidateDependencies(dependencies, rows) ==
    {dep \in dependencies : ~(dep.row < 1 \/ dep.row > Len(rows))}

\* evaluate_formulas, lines 46-49, and the handler of lines 160-169 when
\* data.copy() raises for data = None.
BeginStep(e, q) ==
    IF q.data = NoneV
    THEN {[e |-> e,
           q |-> [q EXCEPT
                    !.pc = "done",
                    !.result =
                        [success |-> FALSE,
                         error |-> Msg("'NoneType' object has no attribute 'copy'"),
                         message |-> Msg("Failed to evaluate formulas"),
                         cell_errors |-> e.circular_dependency_errors,
                         data |-> q.data,
                         stats |-> NoneV]]]}
    ELSE {[e |-> e, q |-> [q EXCEPT !.pc = "reset"]]}

\* _build_dependency_graph, lines 173-174.
ResetStep(e, q) ==
    {[e |-> NewEngine, q |-> [q EXCEPT !.pc = "build", !.scan = 0]]}

\* _build_dependency_graph, lines 176-195: the loops up to and including the
\* next formula cell.
BuildCellStep(e, q) ==
    With(NextFormulaPos(q.data.rows, q.columns, q.scan), LAMBDA k :
    With(ScanRowIndex(q.columns, k), LAMBDA row_index :
    With(ScanColumn(q.columns, k), LAMBDA column :
    With(ScanValue(q.data.rows, q.columns, k), LAMBDA cell_value :
    With(CellRef(column.key, row_index + 1), LAMBDA cell_ref :
        LET mapped_dependencies == MappedDependencies(cell_value.s, q.columns)
            valid_dependencies ==
                ValidateDependencies(mapped_dependencies, q.data.rows)
        IN {[e |-> [dependency_graph |-> out.g,
                    circular_dependency_errors |->
                        IF out.ok THEN e.circular_dependency_errors
                        ELSE DictSet(e.circular_dependency_errors,
                                     CellKey(row_index, column.key),
                                     Msg("Circular dependency detected"))],
             q |-> [q EXCEPT
                      !.scan = k + 1,
                      !.adds = Append(@, [cell |-> cell_ref, ok |-> out.ok,
                                          deps |-> valid_dependencies])]]
              : out \in AddFormula(e.dependency_graph, cell_ref, cell_value.s,
                                   valid_dependencies)})))))

\* evaluate_formulas, lines 55-85: the cycle check, then the evaluation order
\* and the working copy of the grid.  A result is one record for both kinds of
\* response: the key a response does not have is None.
CheckStep(e, q) ==
    With(HasCircularDependency(e.dependency_graph), LAMBDA check :
        IF check.has_cycles
        THEN LET cycle_path == check.cycle_path
                 in_grid == {i \in DOMAIN cycle_path :
                                /\ 0 <= cycle_path[i].row - 1
                                /\ cycle_path[i].row - 1 < Len(q.data.rows)}
                 cycle_errors ==
                    [cell_key \in {CellKey(cycle_path[i].row - 1,
                                           cycle_path[i].column) : i \in in_grid}
                        |-> [text |-> "Circular dependency", cycle |-> cycle_path]]
             IN {[e |-> e,
                  q |-> [q EXCEPT
                           !.pc = "done",
                           !.result =
                               [success |-> FALSE,
                                error |-> [text |-> "Circular dependency detected",
                                           cycle |-> cycle_path],
                                message |-> Msg("Circular dependencies must be resolved before evaluation"),
                                cell_errors |-> cycle_errors,
                                data |-> q.data,
                                stats |-> NoneV]]]}
        ELSE {[e |-> e,
               q |-> [q EXCEPT
                        !.pc = "eval",
                        !.evaluation_order = GetEvaluationOrder(e.dependency_graph),
                        !.idx = 1,
                        !.new_data = q.data.rows,
                        !.evaluation_stats =
                            [evaluated |-> 0, errors |-> 0, cached |-> 0],
                        !.cell_errors = EmptyDict]]})

\* evaluate_formulas, lines 87-140: one iteration of the evaluation loop.
EvalCellStep(e, q) ==
    With(q.evaluation_order[q.idx], LAMBDA cell_ref :
    With(LetterToColumnKey(cell_ref.column, q.columns), LAMBDA column_key :
    LET g == e.dependency_graph
        row_index == cell_ref.row - 1
        Store(text) ==
            [q.new_data EXCEPT ![row_index + 1] = DictSet(@, column_key, StrV(text))]
        Seen(formula, outcome) ==
            Append(q.evals, [cell |-> cell_ref, formula |-> formula,
                             written |-> q.written, outcome |-> outcome])
    IN IF cell_ref \notin NodeSet(g)
       THEN \* KeyError at line 89, handled by lines 129-140
            {[e |-> e,
              q |-> [q EXCEPT
                       !.idx = @ + 1,
                       !.new_data =
                           IF row_index < Len(q.new_data) /\ column_key # <<>>
                           THEN Store(ErrorToken) ELSE @,
                       !.cell_errors =
                           DictSet(@, IF column_key # <<>>
                                      THEN CellKey(row_index, column_key)
                                      ELSE CellKey(row_index, cell_ref.column),
                                   [text |-> "KeyError", cell |-> cell_ref]),
                       !.evaluation_stats.errors = @ + 1,
                       !.evals = Seen(<<>>, "missing")]]}
       ELSE IF g.node[cell_ref].is_evaluated
       THEN {[e |-> e,
              q |-> [q EXCEPT !.idx = @ + 1,
                              !.evaluation_stats.cached = @ + 1,
                              !.evals = Seen(g.node[cell_ref].formula, "cached")]]}
       ELSE IF row_index < 0 \/ row_index >= Len(q.new_data) \/ column_key = <<>>
       THEN {[e |-> e,
              q |-> [q EXCEPT
                       !.idx = @ + 1,
                       !.cell_errors =
                           DictSet(@, CellKey(row_index, cell_ref.column),
                                   Msg("Invalid cell reference")),
                       !.evals = Seen(g.node[cell_ref].formula, "invalid")]]}
       ELSE With(EvaluateFormula(g.node[cell_ref].formula, q.new_data, q.columns),
                 LAMBDA result :
            With(IsStr(result) /\ StartsWith(result.s, <<"#">>), LAMBDA is_error :
               {[e |-> [e EXCEPT !.dependency_graph =
                            MarkCellEvaluated(g, cell_ref, result, is_error,
                                              IF is_error THEN result ELSE NoneV)],
                 q |-> [q EXCEPT
                          !.idx = @ + 1,
                          !.new_data =
                              Store(IF is_error THEN result.s ELSE FormatNumber(result)),
                          !.cell_errors =
                              IF is_error
                              THEN DictSet(@, CellKey(row_index, column_key), result)
                              ELSE @,
                          !.evaluation_stats =
                              IF is_error THEN [@ EXCEPT !.errors = @ + 1]
                              ELSE [@ EXCEPT !.evaluated = @ + 1],
                          !.written = @ \cup {cell_ref},
                          !.evals = Seen(g.node[cell_ref].formula,
                                         IF is_error THEN "error" ELSE "evaluated")]]}))))

\* evaluate_formulas, lines 142-158.
RespondStep(e, q) ==
    {[e |-> e,
      q |-> [q EXCEPT
               !.pc = "done",
               !.result =
                   [success |-> TRUE,
                    error |-> NoneV,
                    message |-> [text |-> "Evaluated formulas successfully",
                                 evaluated |-> q.evaluation_stats.evaluated],
                    cell_errors |->
                        DictMerge(e.circular_dependency_errors, q.cell_errors),
                    data |-> ListV(q.new_data),
                    stats |->
                        [evaluation |-> q.evaluation_stats,
                         graph |-> GetGraphStats(e.dependency_graph),
                         evaluation_order |->
                            [i \in DOMAIN q.evaluation_order |->
                                CellStr(q.evaluation_order[i])]]]]]}

\* Where a call is in the build loop and in the evaluation loop.
Building(q) ==
    q.pc = "build" /\ NextFormulaPos(q.data.rows, q.columns, q.scan) >= 0
Built(q) ==
    q.pc = "build" /\ NextFormulaPos(q.data.rows, q.columns, q.scan) < 0
Evaluating(q) == q.pc = "eval" /\ q.idx <= Len(q.evaluation_order)
Evaluated(q) == q.pc = "eval" /\ q.idx > Len(q.evaluation_order)

\* One step of a call of evaluate_formulas on engine e.
Step(e, q) ==
    CASE q.pc = "begin" -> BeginStep(e, q)
      [] q.pc = "reset" -> ResetStep(e, q)
      [] Building(q) -> BuildCellStep(e, q)
      [] Built(q) -> CheckStep(e, q)
      [] Evaluating(q) -> EvalCellStep(e, q)
      [] Evaluated(q) -> RespondStep(e, q)

\* The results a call of evaluate_formulas can return when nothing else uses
\* the engine while it runs.
RECURSIVE Run(_, _)
Run(e, q) ==
    IF q.pc = "done" THEN {q.result}
    ELSE UNION {Run(o.e, o.q) : o \in Step(e, q)}

\* The results of evaluate_formulas(data, columns) on a new engine.
FreshResults(data, columns) == Run(NewEngine, NewRequest(data, columns))

(* ------------------- the graph driven through its API ------------------ *)

FormulaText == <<"=", "1">>

InitGraph ==
    /\ dependency_graph = NewGraph
    /\ calls = 0
    /\ last = [op |-> "none"]
    /\ added = [c \in Cells |-> {}]
    /\ circular_dependency_errors = EmptyDict
    /\ req = [r \in Requests |-> IdleRequest]

\* The cells the callers of the graph use.
ApiCells == {A1, B1, C1}

\* A caller's add_formula(cell_ref, formula, dependencies).
AddFormulaCall ==
    /\ calls < MaxCalls
    /\ \E cell_ref \in ApiCells, dependencies \in SUBSET ApiCells :
         \E out \in AddFormula(dependency_graph, cell_ref, FormulaText, dependencies) :
            /\ dependency_graph' = out.g
            /\ last' = [op |-> "add", cell |-> cell_ref, deps |-> dependencies,
                        ok |-> out.ok,
                        replaced |-> cell_ref \in NodeSet(dependency_graph)]
            /\ added' = [added EXCEPT ![cell_ref] =
                            IF out.ok THEN dependencies ELSE {}]
    /\ calls' = calls + 1
    /\ UNCHANGED <<circular_dependency_errors, req>>

\* A caller's mark_cell_evaluated(cell_ref, value).
MarkCellEvaluatedCall ==
    /\ calls < MaxCalls
    /\ \E cell_ref \in ApiCells :
         /\ dependency_graph' =
                MarkCellEvaluated(dependency_graph, cell_ref, IntV(0), FALSE, NoneV)
         /\ last' = [op |-> "mark", cell |-> cell_ref]
    /\ calls' = calls + 1
    /\ UNCHANGED <<added, circular_dependency_errors, req>>

Next ==
    \/ AddFormulaCall
    \/ MarkCellEvaluatedCall

Spec == InitGraph /\ [][Next]_vars

(* ---------------- evaluate_formulas run on the engine ------------------ *)

\* The engine's fields as one record.
Engine ==
    [dependency_graph |-> dependency_graph,
     circular_dependency_errors |-> circular_dependency_errors]

\* Request r takes one of the steps outs.
Take(r, outs) ==
    /\ \E o \in outs :
         /\ dependency_graph' = o.e.dependency_graph
         /\ circular_dependency_errors' = o.e.circular_dependency_errors
         /\ req' = [req EXCEPT ![r] = o.q]
    /\ UNCHANGED <<calls, last, added>>

Begin(r) == req[r].pc = "begin" /\ Take(r, BeginStep(Engine, req[r]))

BuildReset(r) == req[r].pc = "reset" /\ Take(r, ResetStep(Engine, req[r]))

BuildCell(r) == Building(req[r]) /\ Take(r, BuildCellStep(Engine, req[r]))

CycleCheck(r) == Built(req[r]) /\ Take(r, CheckStep(Engine, req[r]))

EvalCell(r) == Evaluating(req[r]) /\ Take(r, EvalCellStep(Engine, req[r]))

Respond(r) == Evaluated(req[r]) /\ Take(r, RespondStep(Engine, req[r]))

\* The grids and column lists of the requests.
Column(key) == [key |-> key]

ColumnLists(n) == UNION {[1..m -> {Column(k) : k \in Keys}] : m \in 1..n}

CellTexts ==
    {StrV(<<"5">>),
     StrV(<<"=", "A", "1">>),
     StrV(<<"=", "B", "1">>),
     StrV(<<"=", "C", "1">>),
     StrV(<<"=", "A", "1", "+", "B", "1">>),
     StrV(<<"=", "S", "U", "M", "(", "A", "1", ":", "C", "1", ")">>)}

OneRowGrids == {<<row>> : row \in [Keys -> CellTexts]}

TwoRowTexts ==
    {StrV(<<"1">>), StrV(<<"=", "A", "1">>), StrV(<<"=", "A", "2">>),
     StrV(<<"=", "B", "2", "/", "0">>)}

TwoRowGrids ==
    {<<row1, row2>> : row1 \in [{<<"A">>, <<"B">>} -> TwoRowTexts],
                      row2 \in [{<<"A">>, <<"B">>} -> TwoRowTexts]}

\* A column list that declares two keys twice.
RepeatedColumns ==
    <<Column(<<"A">>), Column(<<"B">>), Column(<<"C">>), Column(<<"B">>),
      Column(<<"C">>)>>

PassInputs ==
    {[data |-> ListV(rows), columns |-> columns] :
        rows \in OneRowGrids, columns \in ColumnLists(MaxCols)}
    \cup {[data |-> ListV(rows), columns |-> <<Column(<<"A">>), Column(<<"B">>)>>] :
            rows \in TwoRowGrids}
    \cup {[data |-> ListV(rows), columns |-> RepeatedColumns] : rows \in OneRowGrids}
    \cup {[data |-> NoneV, columns |-> <<Column(<<"A">>)>>]}

InitEngine ==
    /\ dependency_graph = NewEngine.dependency_graph
    /\ circular_dependency_errors = NewEngine.circular_dependency_errors
    /\ calls = 0
    /\ last = [op |-> "none"]
    /\ added = [c \in Cells |-> {}]

\* One call of evaluate_formulas on a new engine.
InitPass ==
    /\ InitEngine
    /\ \E i \in PassInputs :
         req = [r \in Requests |->
                  IF r = 1 THEN NewRequest(i.data, i.columns) ELSE IdleRequest]

NextPass ==
    \/ Begin(1)
    \/ BuildReset(1)
    \/ BuildCell(1)
    \/ CycleCheck(1)
    \/ EvalCell(1)
    \/ Respond(1)

SpecPass == InitPass /\ [][NextPass]_vars

\* Calls of evaluate_formulas one after the other on one engine.
ReuseInputs ==
    {[data |-> NoneV, columns |-> <<Column(<<"A">>)>>],
     [data |-> ListV(<<(<<"A">> :> StrV(<<"=", "A", "1">>))>>),
      columns |-> <<Column(<<"A">>)>>],
     [data |-> ListV(<<(<<"A">> :> StrV(<<"5">>)) @@
                       (<<"B">> :> StrV(<<"=", "A", "1", "+", "3">>))>>),
      columns |-> <<Column(<<"A">>), Column(<<"B">>)>>],
     [data |-> ListV(<<(<<"A">> :> StrV(<<"=", "B", "1">>)) @@
                       (<<"B">> :> StrV(<<"=", "2">>))>>),
      columns |-> <<Column(<<"A">>), Column(<<"B">>)>>],
     [data |-> ListV(<<(<<"A">> :> StrV(<<"1">>)),
                       (<<"A">> :> StrV(<<"=", "A", "1", "/", "0">>))>>),
      columns |-> <<Column(<<"A">>)>>]}

InitReuse ==
    /\ InitEngine
    /\ req = [r \in Requests |-> IdleRequest]

\* A caller calls evaluate_formulas(data, columns) when no call is running.
Call(r) ==
    /\ calls < MaxPasses
    /\ \A other \in Requests : req[other].pc \in {"idle", "done"}
    /\ \E i \in ReuseInputs : req' = [req EXCEPT ![r] = NewRequest(i.data, i.columns)]
    /\ calls' = calls + 1
    /\ UNCHANGED <<dependency_graph, circular_dependency_errors, last, added>>

NextReuse ==
    \/ Call(1)
    \/ Begin(1)
    \/ BuildReset(1)
    \/ BuildCell(1)
    \/ CycleCheck(1)
    \/ EvalCell(1)
    \/ Respond(1)

SpecReuse == InitReuse /\ [][NextReuse]_vars

\* Two requests of the Flask application, served by two threads that both
\* call evaluate_formulas on the one module-level formula_engine.
\* The route handler takes len(grid_data) before it calls the engine, so a
\* request whose grid is null does not reach evaluate_formulas.
ConcInputs == {i \in ReuseInputs : i.data # NoneV}

InitConc ==
    /\ InitEngine
    /\ \E i1 \in ConcInputs, i2 \in ConcInputs :
         req = [r \in Requests |->
                  IF r = 1 THEN NewRequest(i1.data, i1.columns)
                  ELSE NewRequest(i2.data, i2.columns)]

NextConc ==
    \E r \in Requests :
        \/ Begin(r)
        \/ BuildReset(r)
        \/ BuildCell(r)
        \/ CycleCheck(r)
        \/ EvalCell(r)
        \/ Respond(r)

SpecConc == InitConc /\ [][NextConc]_vars

\* One call of evaluate_formulas on a grid of one row with columns A, B, C:
\* A holds a plain value, B and C hold formulas that yield a number or one of
\* the error tokens and that reference A1, the row 2 the grid does not have,
\* or the column D the schema does not have.
CalcValues == {StrV(<<"5">>), StrV(<<>>)}

CalcFormulas ==
    {StrV(<<"=", "A", "1", "/", "0">>),
     StrV(<<"=", "F", "O", "O", "(", "A", "1", ")">>),
     StrV(<<"=", "X">>),
     StrV(<<"=", "A", "1", "+", "1">>),
     StrV(<<"=", "A", "2", "+", "1">>),
     StrV(<<"=", "D", "1">>),
     StrV(<<"=", "S", "U", "M", "(", "A", "1", ",", "D", "1", ")">>),
     StrV(<<"=", "M", "I", "N", "(", "D", "1", ":", "D", "2", ")">>),
     StrV(<<"=", "A", "1", "/", "D", "1">>)}

CalcColumns == <<Column(<<"A">>), Column(<<"B">>), Column(<<"C">>)>>

CalcInputs ==
    {[data |-> ListV(<<(<<"A">> :> a) @@ (<<"B">> :> b) @@ (<<"C">> :> c)>>),
      columns |-> CalcColumns] :
        a \in CalcValues, b \in CalcFormulas, c \in CalcFormulas}

InitCalc ==
    /\ InitEngine
    /\ \E i \in CalcInputs :
         req = [r \in Requests |->
                  IF r = 1 THEN NewRequest(i.data, i.columns) ELSE IdleRequest]

SpecCalc == InitCalc /\ [][NextPass]_vars

\* One-row grids in which C1 reads B1: A holds a number, B a formula that
\* yields #DIV/0!, #NAME?, #ERROR! or a number, C a formula that reads B1 as a
\* cell reference, as an operand, or inside SUM, AVERAGE, MIN or MAX.
TokenValues == {StrV(<<"3">>), StrV(<<"7">>)}

TokenFormulas ==
    {StrV(<<"=", "A", "1", "/", "0">>),
     StrV(<<"=", "F", "O", "O", "(", "A", "1", ")">>),
     StrV(<<"=", "X">>),
     StrV(<<"=", "A", "1", "+", "1">>)}

ReaderFormulas ==
    {StrV(<<"=", "B", "1">>),
     StrV(<<"=", "B", "1", "+", "1">>),
     StrV(<<"=", "A", "1", "*", "B", "1">>),
     StrV(<<"=", "A", "1", "/", "B", "1">>),
     StrV(<<"=", "S", "U", "M", "(", "A", "1", ":", "B", "1", ")">>),
     StrV(<<"=", "S", "U", "M", "(", "A", "1", ",", "B", "1", ")">>),
     StrV(<<"=", "A", "V", "E", "R", "A", "G", "E", "(", "A", "1", ":", "B", "1", ")">>),
     StrV(<<"=", "M", "I", "N", "(", "B", "1", ":", "B", "1", ")">>),
     StrV(<<"=", "M", "A", "X", "(", "B", "1", ":", "B", "2", ")">>)}

TokenInputs ==
    {[data |-> ListV(<<(<<"A">> :> a) @@ (<<"B">> :> b) @@ (<<"C">> :> c)>>),
      columns |-> CalcColumns] :
        a \in TokenValues, b \in TokenFormulas, c \in ReaderFormulas}

InitToken ==
    /\ InitEngine
    /\ \E i \in TokenInputs :
         req = [r \in Requests |->
                  IF r = 1 THEN NewRequest(i.data, i.columns) ELSE IdleRequest]

SpecToken == InitToken /\ [][NextPass]_vars

(* ------------- _evaluate_formula and extract_dependencies called ------- *)

\* The formulas a caller evaluates: formulas with more than one operator, SUM over a range, MIN and MAX over a range, COUNT over a range, a division.
ChainFormulas ==
    {<<"=", "A", "1", "+", "B", "1", "+", "A", "2">>,
     <<"=", "A", "1", "*", "2", "+", "1">>,
     <<"=", "1", "+", "2", "+", "3">>,
     <<"=", "A", "1", "-", "B", "1", "-", "A", "2">>}

SumFormulas ==
    {<<"=", "S", "U", "M", "(", "A", "1", ":", "B", "1", ")">>,
     <<"=", "S", "U", "M", "(", "A", "1", ":", "B", "2", ")">>,
     <<"=", "S", "U", "M", "(", "B", "2", ":", "A", "1", ")">>,
     <<"=", "S", "U", "M", "(", "A", "2", ":", "B", "1", ")">>,
     <<"=", "S", "U", "M", "(", "A", "1", ":", "C", "2", ")">>,
     <<"=", "S", "U", "M", "(", "A", "1", ":", "A", "3", ")">>}

MinMaxFormulas ==
    {<<"=", "M", "I", "N", "(", "A", "1", ":", "B", "2", ")">>,
     <<"=", "M", "A", "X", "(", "A", "1", ":", "B", "2", ")">>,
     <<"=", "M", "I", "N", "(", "A", "1", ":", "A", "2", ")">>,
     <<"=", "M", "A", "X", "(", "A", "1", ":", "A", "2", ")">>,
     <<"=", "M", "I", "N", "(", "A", "3", ":", "A", "4", ")">>,
     <<"=", "M", "A", "X", "(", "A", "3", ":", "A", "4", ")">>}

CountFormulas ==
    {<<"=", "C", "O", "U", "N", "T", "(", "A", "1", ":", "A", "2", ")">>,
     <<"=", "C", "O", "U", "N", "T", "(", "A", "1", ":", "B", "2", ")">>,
     <<"=", "C", "O", "U", "N", "T", "(", "B", "1", ":", "B", "2", ")">>}

DivisionFormulas ==
    {<<"=", "A", "1", "/", "B", "1">>,
     <<"=", "A", "1", "/", "0">>,
     <<"=", "5", "/", "B", "1">>,
     <<"=", "A", "1", "/", "C", "1">>,
     <<"=", "B", "1", "/", "A", "3">>,
     <<"=", "-", "5", "/", "0">>,
     <<"=", "A", "1", "/", "0", ".", "0">>,
     <<"=", "A", "2", "/", "B", "2">>}

EvalFormulas ==
    ChainFormulas \cup SumFormulas \cup MinMaxFormulas \cup CountFormulas
        \cup DivisionFormulas

\* The cell values of the grids: numeric texts, the empty text, a blank, the
\* text "0" and the number 0.
EvalValues ==
    {StrV(<<"3">>), StrV(<<"7">>), StrV(<<>>), StrV(<<" ">>), StrV(<<"0">>), IntV(0)}

\* Grids of one or two rows with keys A and B; the second row can lack B.
\* The schema declares A, B and C, so every cell of column C is missing.
EvalGrids ==
    {<<row1>> : row1 \in [{<<"A">>, <<"B">>} -> EvalValues]}
    \cup {<<row1, row2>> :
            row1 \in [{<<"A">>, <<"B">>} -> EvalValues],
            row2 \in [{<<"A">>, <<"B">>} -> EvalValues]
                        \cup [{<<"A">>} -> EvalValues]}

\* The corners of the ranges a caller extracts the dependencies of.
CornerColumns == <<"A", "B", "C">>
CornerRows == {1, 2, 3}

\* The text =SUM(c1r1:c2r2).
RangeFormula(c1, r1, c2, r2) ==
    <<"=", "S", "U", "M", "(">> \o <<c1>> \o NatToStr(r1) \o <<":">>
        \o <<c2>> \o NatToStr(r2) \o <<")">>

\* The arguments of one call: of _evaluate_formula(formula, 0, key, data,
\* columns), or of extract_dependencies('=SUM(c1r1:c2r2)').
InitFormula ==
    /\ dependency_graph = NewEngine.dependency_graph
    /\ circular_dependency_errors = NewEngine.circular_dependency_errors
    /\ calls = 0
    /\ added = [c \in Cells |-> {}]
    /\ req = [r \in Requests |-> IdleRequest]
    /\ \/ \E formula \in EvalFormulas, data \in EvalGrids :
            last = [op |-> "formula", formula |-> formula, data |-> data,
                    columns |-> CalcColumns]
       \/ \E c1 \in DOMAIN CornerColumns, c2 \in DOMAIN CornerColumns,
             r1 \in CornerRows, r2 \in CornerRows :
            last = [op |-> "range", c1 |-> c1, r1 |-> r1, c2 |-> c2, r2 |-> r2]

\* The call of _evaluate_formula.
EvaluateFormulaCall ==
    /\ last.op = "formula"
    /\ last' = [last EXCEPT !.op = "evaluate"] @@
                [result |-> EvaluateFormula(last.formula, last.data, last.columns)]
    /\ UNCHANGED <<dependency_graph, circular_dependency_errors, req, calls, added>>

\* The call of extract_dependencies.
ExtractDependenciesCall ==
    /\ last.op = "range"
    /\ last' = [last EXCEPT !.op = "extract"] @@
                [dependencies |->
                    ExtractDependencies(
                        RangeFormula(CornerColumns[last.c1], last.r1,
                                     CornerColumns[last.c2], last.r2))]
    /\ UNCHANGED <<dependency_graph, circular_dependency_errors, req, calls, added>>

NextFormula ==
    \/ EvaluateFormulaCall
    \/ ExtractDependenciesCall

SpecFormula == InitFormula /\ [][NextFormula]_vars

(* --------- _column_to_number and _number_to_column called in turn ------- *)

\* The column names of at most n letters A-Z.
RECURSIVE ColumnNames(_)
ColumnNames(n) ==
    IF n = 0 THEN {}
    ELSE {<<UpperLetters[k]>> : k \in DOMAIN UpperLetters}
         \cup {Append(c, UpperLetters[k]) :
                    c \in ColumnNames(n - 1), k \in DOMAIN UpperLetters}

\* A caller starts from a column name or from a column number.
InitColumn ==
    /\ dependency_graph = NewEngine.dependency_graph
    /\ circular_dependency_errors = NewEngine.circular_dependency_errors
    /\ calls = 0
    /\ added = [c \in Cells |-> {}]
    /\ req = [r \in Requests |-> IdleRequest]
    /\ \/ \E col \in ColumnNames(MaxLetters) :
            last = [op |-> "column", given |-> StrV(col), value |-> StrV(col),
                    converted |-> <<>>]
       \/ \E num \in 1..MaxColumnNumber :
            last = [op |-> "number", given |-> IntV(num), value |-> IntV(num),
                    converted |-> <<>>]

\* The call of _column_to_number on the value at hand; converted lists the
\* values the calls have returned so far.  A round trip is two calls.
ColumnToNumberCall ==
    /\ last.op = "column"
    /\ Len(last.converted) < 2
    /\ With(IntV(ColumnToNumber(last.value.s)), LAMBDA num :
            last' = [last EXCEPT !.op = "number", !.value = num,
                                 !.converted = Append(@, num)])
    /\ UNCHANGED <<dependency_graph, circular_dependency_errors, req, calls, added>>

\* The call of _number_to_column on the value at hand.
NumberToColumnCall ==
    /\ last.op = "number"
    /\ Len(last.converted) < 2
    /\ With(StrV(NumberToColumn(last.value.n)), LAMBDA col :
            last' = [last EXCEPT !.op = "column", !.value = col,
                                 !.converted = Append(@, col)])
    /\ UNCHANGED <<dependency_graph, circular_dependency_errors, req, calls, added>>

NextColumn ==
    \/ ColumnToNumberCall
    \/ NumberToColumnCall

SpecColumn == InitColumn /\ [][NextColumn]_vars

(* ------------------------ relations used by claims --------------------- *)

\* The cells reachable from the cells of S along the edges of E (pairs <<from, to>>).
RECURSIVE Grow(_, _)
Grow(E, S) ==
    LET T == S \cup {e[2] : e \in {f \in E : f[1] \in S}} IN
    IF T = S THEN S ELSE Grow(E, T)

OnCycle(E, n) == n \in Grow(E, {e[2] : e \in {f \in E : f[1] = n}})

Cyclic(E) == \E e \in E : OnCycle(E, e[1])

\* Edge D -> N: N and D are nodes and N.dependencies contains D.
NodeEdges(g) ==
    {e \in NodeSet(g) \X NodeSet(g) : e[1] \in g.node[e[2]].dependencies}

\* Edge D -> N: both are formula cells and N was last added with D in its set.
AddedEdges(formula_cells, a) ==
    {e \in formula_cells \X formula_cells : e[1] \in a[e[2]]}

IndexOf(s, x) == CHOOSE i \in DOMAIN s : s[i] = x

NoDuplicates(s) == \A i, j \in DOMAIN s : s[i] = s[j] => i = j

\* The content of a cell of a grid ('' when the row has no such key).
GridText(rows, cell) == RowGet(rows[cell.row], cell.column, StrV(<<>>))

\* The formula cells of a grid: the cells of declared columns that hold a
\* string starting with '='.
GridFormulaCells(rows, columns) ==
    {cell \in {CellRef(columns[j].key, i) : i \in DOMAIN rows, j \in DOMAIN columns} :
        IsFormula(GridText(rows, cell))}

\* Edge D -> N: N and D are formula cells of the grid and the formula of N
\* references D.
GridEdges(rows, columns) ==
    {e \in GridFormulaCells(rows, columns) \X GridFormulaCells(rows, columns) :
        e[1] \in ExtractDependencies(GridText(rows, e[2]).s)}

DistinctKeys(columns) ==
    \A i, j \in DOMAIN columns : columns[i].key = columns[j].key => i = j

\* A reference is in the grid when its row is a row of the grid and its column
\* is a key of the schema.
InGrid(cell, rows, columns) ==
    /\ cell.row \in 1..Len(rows)
    /\ \E j \in DOMAIN columns : columns[j].key = cell.column

\* The grid with n rows and the keys given in every row, where every cell the
\* grid does not have holds the number 0; and the schema that declares the keys.
ZeroFilledRows(rows, keys, n) ==
    [i \in 1..n |->
        [k \in keys |->
            IF i <= Len(rows) /\ k \in DOMAIN rows[i] THEN rows[i][k] ELSE IntV(0)]]

ZeroFilledColumns(columns, keys) ==
    columns \o
    With(SetToSeq({k \in keys : \A j \in DOMAIN columns : columns[j].key # k}),
         LAMBDA extra : [i \in DOMAIN extra |-> [key |-> extra[i]]])

\* What the evaluation loop stores in the grid for a result of _evaluate_formula.
Rendered(result) ==
    IF IsStr(result) THEN result ELSE StrV(FormatNumber(result))

\* The calls that have returned.
Done == {r \in Requests : req[r].pc = "done"}

\* The parts of a result that a caller compares.
Returned(result) ==
    [success |-> result.success, data |-> result.data,
     cell_errors |-> result.cell_errors, stats |-> result.stats]

(* ------------------------------- claims -------------------------------- *)

\* C1: whenever the dependency sets of the formula nodes are acyclic, the
\* evaluation order holds every formula node exactly once and every node comes
\* after each formula node of its dependency set.
C1_OrderCompleteWhenAcyclic ==
    LET g == dependency_graph
        order == GetEvaluationOrder(g)
    IN ~Cyclic(NodeEdges(g)) =>
        /\ \A n \in NodeSet(g) :
              Cardinality({i \in DOMAIN order : order[i] = n}) = 1
        /\ \A e \in NodeEdges(g) : IndexOf(order, e[1]) < IndexOf(order, e[2])

\* C2: add_formula returns False exactly when the added cell, with the
\* dependency set given, lies on a cycle of the formula cells' latest
\* dependency sets.
C2_RejectedIffCycle ==
    last.op = "add" =>
        (last.ok = FALSE <=>
            OnCycle(AddedEdges(NodeSet(dependency_graph) \cup {last.cell},
                               [added EXCEPT ![last.cell] = last.deps]),
                    last.cell))

\* C4: has_circular_dependency() is True exactly when some chain of
\* formula-to-formula edges (by the nodes' dependency sets) returns to its start.
C4_HasCycleIffCyclic ==
    HasCircularDependency(dependency_graph).has_cycles
        <=> Cyclic(NodeEdges(dependency_graph))

\* C10: a rejected add_formula for a coordinate without a node leaves nodes,
\* both edge maps, the dirty set and the stored evaluation order unchanged.
C10_RejectedNewAddIsNoOp ==
    [][(calls' = calls + 1 /\ last'.op = "add" /\ ~last'.ok /\ ~last'.replaced)
          => dependency_graph' = dependency_graph]_vars

\* C10 witness: a rejected add for a coordinate without a node, on a graph
\* that already holds a node.
C10_Witness ==
    /\ last.op = "add" /\ ~last.ok /\ ~last.replaced
    /\ dependency_graph.nodes # <<>>
    /\ last.cell \notin NodeSet(dependency_graph)

\* C3: a call on a grid whose formula cells reference each other in a loop
\* returns success = false, a non-empty cycle path and the grid it was given.
C3_CycleAbortsPass ==
    \A r \in Done :
        (req[r].data # NoneV
         /\ Cyclic(GridEdges(req[r].data.rows, req[r].columns)))
        => /\ ~req[r].result.success
           /\ req[r].result.error.cycle # <<>>
           /\ req[r].result.data = req[r].data

\* C5: in a pass over a grid with distinct column keys and no circular
\* reference, when a formula cell is evaluated, the result of every formula cell
\* it references has already been written to the working grid.
C5_ReferencedCellsEvaluatedFirst ==
    \A r \in Requests :
        \A i \in DOMAIN req[r].evals :
            (DistinctKeys(req[r].columns)
             /\ ~Cyclic(GridEdges(req[r].data.rows, req[r].columns)))
            => \A e \in GridEdges(req[r].data.rows, req[r].columns) :
                  e[2] = req[r].evals[i].cell => e[1] \in req[r].evals[i].written

\* C5 witness: column A comes before column B, A1 references the formula cell
\* B1, and A1 has been evaluated with B1's result written.
C5_Witness ==
    /\ req[1].columns = <<Column(<<"A">>), Column(<<"B">>)>>
    /\ req[1].data # NoneV
    /\ ~Cyclic(GridEdges(req[1].data.rows, req[1].columns))
    /\ <<B1, A1>> \in GridEdges(req[1].data.rows, req[1].columns)
    /\ \E i \in DOMAIN req[1].evals :
          /\ req[1].evals[i].cell = A1
          /\ req[1].evals[i].outcome = "evaluated"
          /\ B1 \in req[1].evals[i].written

\* C6: each of two concurrent requests returns the data, errors and stats
\* (with the evaluation order) that its input gives on an engine used by
\* nobody else.
C6_ConcurrentRequestsIsolated ==
    \A r \in Done :
        Returned(req[r].result)
            \in {Returned(x) : x \in FreshResults(req[r].data, req[r].columns)}

\* C7: a call that follows other calls on the same engine returns the success
\* flag, data, error map and stats that a new engine returns for its input.
C7_ResultDependsOnlyOnInput ==
    \A r \in Done :
        calls > 1
        => Returned(req[r].result)
              \in {Returned(x) : x \in FreshResults(req[r].data, req[r].columns)}

\* C8: in a result with success = true no formula cell of the input grid still
\* holds a string starting with '='.
C8_NoRawFormulaOnSuccess ==
    \A r \in Done :
        req[r].result.success
        => \A cell \in GridFormulaCells(req[r].data.rows, req[r].columns) :
              ~IsFormula(GridText(req[r].result.data.rows, cell))

\* C9: in a returned result, every cell with a failed add_formula call has an
\* entry "{rowIndex}-{columnKey}" in the error map and is not in the evaluation
\* order of the pass, and no cell with a successful add_formula call has the
\* circular-dependency entry.
C9_FailedAddsRecorded ==
    \A r \in Done :
        req[r].result.success
        => \A i \in DOMAIN req[r].adds :
              LET cell == req[r].adds[i].cell
                  cell_key == CellKey(cell.row - 1, cell.column)
                  errors == req[r].result.cell_errors
              IN IF req[r].adds[i].ok
                 THEN ~(cell_key \in DOMAIN errors
                        /\ errors[cell_key] = Msg("Circular dependency detected"))
                 ELSE /\ cell_key \in DOMAIN errors
                      /\ cell \notin Range(req[r].evaluation_order)

\* C11: an add_formula for a coordinate that has a node, with a dependency set
\* that puts the cell on a cycle of the formula cells' latest dependency sets,
\* returns False and leaves the coordinate without a node.
C11_RejectedReplacementRemovesNode ==
    (/\ last.op = "add"
     /\ last.replaced
     /\ OnCycle(AddedEdges(NodeSet(dependency_graph) \cup {last.cell},
                           [added EXCEPT ![last.cell] = last.deps]),
                last.cell))
    => /\ ~last.ok
       /\ last.cell \notin NodeSet(dependency_graph)

\* C12: a returned pass over a grid with distinct column keys and no circular
\* reference has evaluated every formula cell of the grid exactly once: the
\* evaluation order has no duplicates, nothing was skipped as cached, and the
\* evaluated and error counts add up to the number of formula nodes.
C12_EveryFormulaEvaluatedOnce ==
    \A r \in Done :
        (/\ req[r].data # NoneV
         /\ DistinctKeys(req[r].columns)
         /\ ~Cyclic(GridEdges(req[r].data.rows, req[r].columns)))
        => /\ req[r].result.success
           /\ NoDuplicates(req[r].evaluation_order)
           /\ req[r].result.stats.evaluation.cached = 0
           /\ req[r].result.stats.evaluation.evaluated
                + req[r].result.stats.evaluation.errors
              = req[r].result.stats.graph.total_formulas
           /\ \A cell \in GridFormulaCells(req[r].data.rows, req[r].columns) :
                Cardinality({i \in DOMAIN req[r].evals :
                                /\ req[r].evals[i].cell = cell
                                /\ req[r].evals[i].outcome \in {"evaluated", "error"}})
                  = 1

\* C12 witness: a returned pass over distinct columns in which C1 references
\* the formula cell B1 and both formula cells were evaluated.
C12_Witness ==
    /\ req[1].pc = "done"
    /\ req[1].data # NoneV
    /\ DistinctKeys(req[1].columns)
    /\ GridEdges(req[1].data.rows, req[1].columns) = {<<B1, C1>>}
    /\ req[1].result.stats.evaluation.evaluated = 2
    /\ req[1].result.stats.graph.total_formulas = 2

\* C13: when the evaluation of a formula cell yields an error token, the pass
\* still returns success = true, the cell of the returned grid holds the token
\* the evaluator returned, the error map holds the token under
\* "{rowIndex}-{columnKey}", and every cell of the evaluation order was evaluated.
C13_ErrorTokenDoesNotAbort ==
    \A r \in Done :
        \A i \in DOMAIN req[r].evals :
            req[r].evals[i].outcome = "error"
            => LET cell == req[r].evals[i].cell
                   text == GridText(req[r].result.data.rows, cell)
                   cell_key == CellKey(cell.row - 1, cell.column)
               IN /\ req[r].result.success
                  /\ text.s \in {ErrorToken, NameToken, DivToken}
                  /\ (~\E e \in GridEdges(req[r].data.rows, req[r].columns) : e[2] = cell)
                        => text = EvaluateFormula(req[r].evals[i].formula,
                                                  req[r].data.rows, req[r].columns)
                  /\ cell_key \in DOMAIN req[r].result.cell_errors
                  /\ req[r].result.cell_errors[cell_key] = text
                  /\ Len(req[r].evals) = Len(req[r].evaluation_order)
                  /\ \A j \in DOMAIN req[r].evals :
                        /\ req[r].evals[j].cell = req[r].evaluation_order[j]
                        /\ req[r].evals[j].outcome \in {"evaluated", "error"}

\* C13 witness: B1 yielded #DIV/0!, C1 was evaluated after it, and the pass
\* has returned.
C13_Witness ==
    /\ req[1].pc = "done"
    /\ Len(req[1].evals) = 2
    /\ req[1].evals[1].cell = B1
    /\ req[1].evals[1].outcome = "error"
    /\ GridText(req[1].result.data.rows, B1) = StrV(DivToken)
    /\ req[1].evals[2].cell = C1
    /\ req[1].evals[2].outcome = "evaluated"

\* C14: a reference to a row the grid does not have or to a column the schema
\* does not have is not in the dependency set passed to add_formula, the cell
\* is still evaluated, and the cell gets the value its formula has on the grid
\* in which the missing cells hold 0.
C14_MissingReferenceReadsZero ==
    \A r \in Done :
        req[r].result.success
        => /\ \A i \in DOMAIN req[r].adds :
                \A dep \in req[r].adds[i].deps :
                    InGrid(dep, req[r].data.rows, req[r].columns)
           /\ \A cell \in GridFormulaCells(req[r].data.rows, req[r].columns) :
                (/\ \E dep \in ExtractDependencies(GridText(req[r].data.rows, cell).s) :
                        ~InGrid(dep, req[r].data.rows, req[r].columns)
                 /\ ~\E e \in GridEdges(req[r].data.rows, req[r].columns) : e[2] = cell)
                => /\ \E i \in DOMAIN req[r].evals : req[r].evals[i].cell = cell
                   /\ GridText(req[r].result.data.rows, cell)
                        = Rendered(EvaluateFormula(
                            GridText(req[r].data.rows, cell).s,
                            ZeroFilledRows(req[r].data.rows,
                                           Keys \cup {<<"D">>}, 2),
                            ZeroFilledColumns(req[r].columns,
                                              Keys \cup {<<"D">>})))

\* C15: a formula with more than one binary operator, such as =A1+B1+A2,
\* evaluates to #ERROR! whatever the grid holds.
C15_ChainedOperatorsAreErrors ==
    (last.op = "evaluate" /\ last.formula \in ChainFormulas)
        => last.result = StrV(ErrorToken)

\* The range a function formula =NAME(c1r1:c2r2) names.
RangeOfCall(formula) ==
    MatchWholeRange(Strip(MatchFunction(SubSeq(formula, 2, Len(formula))).args))

\* The cells <<column letters, row number>> of the rectangle between the two
\* corners of a range, whichever order the corners come in.
Rectangle(range_match) ==
    {<<NumberToColumn(c), r>> :
        c \in Min2(ColumnToNumber(range_match.start_col),
                   ColumnToNumber(range_match.end_col))
              ..Max2(ColumnToNumber(range_match.start_col),
                     ColumnToNumber(range_match.end_col)),
        r \in Min2(range_match.start_row, range_match.end_row)
              ..Max2(range_match.start_row, range_match.end_row)}

\* The numeric value of every cell of a rectangle; a cell that is missing or
\* blank reads 0.
RectangleValues(cells, data, columns) ==
    [c \in cells |-> GetCellValue(c[1], c[2] - 1, data, columns)]

\* C16: SUM over a range is the sum of the numeric values of every cell of the
\* rectangle the two corners describe.
C16_SumOverRectangle ==
    (last.op = "evaluate" /\ last.formula \in SumFormulas)
        => With(Rectangle(RangeOfCall(last.formula)), LAMBDA cells :
                last.result = SumOf(RectangleValues(cells, last.data, last.columns),
                                    cells))

\* SUM over a range whose corners come top-left first is the sum over the rectangle.
C16_SumOverOrderedRange ==
    (/\ last.op = "evaluate"
     /\ last.formula \in SumFormulas
     /\ ColumnToNumber(RangeOfCall(last.formula).start_col)
            <= ColumnToNumber(RangeOfCall(last.formula).end_col)
     /\ RangeOfCall(last.formula).start_row <= RangeOfCall(last.formula).end_row)
        => With(Rectangle(RangeOfCall(last.formula)), LAMBDA cells :
                last.result = SumOf(RectangleValues(cells, last.data, last.columns),
                                    cells))

\* The cells of a rectangle that lie on a row of the grid.
GridCells(cells, data) == {c \in cells : c[2] <= Len(data)}

\* The least and the greatest of a set of numbers; 0 when the set is empty.
LeastOf(values) ==
    IF values = {} THEN IntV(0)
    ELSE CHOOSE v \in values : \A w \in values : ~NumLess(w, v)

GreatestOf(values) ==
    IF values = {} THEN IntV(0)
    ELSE CHOOSE v \in values : \A w \in values : ~NumLess(v, w)

\* The name of the function a formula =NAME(...) calls.
FunctionOfCall(formula) == MatchFunction(SubSeq(formula, 2, Len(formula))).func_name

\* C17: MIN and MAX over a range are the least and the greatest numeric value
\* of the cells of the rectangular range, every column between the corners
\* included, a missing or blank cell reading 0; 0 when the range has no cells.
C17_MinMaxOverRectangle ==
    (last.op = "evaluate" /\ last.formula \in MinMaxFormulas)
        => With(GridCells(Rectangle(RangeOfCall(last.formula)), last.data),
                LAMBDA cells :
                  With({RectangleValues(cells, last.data, last.columns)[c] : c \in cells},
                       LAMBDA values :
                         last.result =
                            IF FunctionOfCall(last.formula) = <<"M", "I", "N">>
                            THEN LeastOf(values) ELSE GreatestOf(values)))

\* MIN and MAX over a range of one column are the least and the greatest value
\* of its cells, and 0 when the range has no cells.
C17_MinMaxOverOneColumn ==
    (/\ last.op = "evaluate"
     /\ last.formula \in MinMaxFormulas
     /\ RangeOfCall(last.formula).start_col = RangeOfCall(last.formula).end_col)
        => With(GridCells(Rectangle(RangeOfCall(last.formula)), last.data),
                LAMBDA cells :
                  With({RectangleValues(cells, last.data, last.columns)[c] : c \in cells},
                       LAMBDA values :
                         last.result =
                            IF FunctionOfCall(last.formula) = <<"M", "I", "N">>
                            THEN LeastOf(values) ELSE GreatestOf(values)))

\* The value a cell of the grid holds: the empty text when the row lacks the key.
HeldValue(cell, data, columns) ==
    With(FindColumnByLetter(cell[1], columns), LAMBDA i :
        IF i = 0 THEN StrV(<<>>)
        ELSE RowGet(data[cell[2]], columns[i].key, StrV(<<>>)))

\* str(value).strip() is not empty.
NonEmptyText(value) ==
    CASE IsStr(value) -> Strip(value.s) # <<>>
      [] IsNum(value) -> TRUE
      [] OTHER -> TRUE

\* C18: COUNT over a range is the number of cells of the range whose value,
\* converted to a string and trimmed, is not empty; a cell that holds the
\* number 0 or the text "0" is counted.
C18_CountNonEmptyText ==
    (last.op = "evaluate" /\ last.formula \in CountFormulas)
        => With(GridCells(Rectangle(RangeOfCall(last.formula)), last.data),
                LAMBDA cells :
                  last.result =
                    IntV(Cardinality({c \in cells :
                            NonEmptyText(HeldValue(c, last.data, last.columns))})))

\* COUNT over a range of one column whose cells hold texts is the number of
\* cells whose trimmed text is not empty; the text "0" is counted.
C18_CountTextsOfOneColumn ==
    (/\ last.op = "evaluate"
     /\ last.formula \in CountFormulas
     /\ RangeOfCall(last.formula).start_col = RangeOfCall(last.formula).end_col
     /\ \A i \in DOMAIN last.data : \A k \in DOMAIN last.data[i] :
            IsStr(last.data[i][k]))
        => With(GridCells(Rectangle(RangeOfCall(last.formula)), last.data),
                LAMBDA cells :
                  last.result =
                    IntV(Cardinality({c \in cells :
                            NonEmptyText(HeldValue(c, last.data, last.columns))})))

\* The text right of the operator of a formula =left/right.
RightOperand(formula) == MatchArithmetic(SubSeq(formula, 2, Len(formula))).right

\* An operand that resolves to 0: the literal 0, or a reference to a cell that
\* holds 0, is blank, or is missing from the grid.
ResolvesToZero(operand, data, columns) ==
    With(MatchWholeCell(operand), LAMBDA cell :
        IF cell.ok
        THEN \/ cell.row > Len(data)
             \/ FindColumnByLetter(cell.column, columns) = 0
             \/ HeldValue(<<cell.column, cell.row>>, data, columns)
                    \in {IntV(0), StrV(<<"0">>), StrV(<<>>), StrV(<<" ">>)}
        ELSE operand \in {<<"0">>, <<"0", ".", "0">>})

\* C19: a division whose right operand resolves to 0 evaluates to #DIV/0!,
\* whatever the left operand is.
C19_DivisionByZeroToken ==
    (/\ last.op = "evaluate"
     /\ last.formula \in DivisionFormulas
     /\ ResolvesToZero(RightOperand(last.formula), last.data, last.columns))
        => last.result = StrV(DivToken)

\* =A1/B1 was evaluated with 7 in A1 and a blank in B1, and gave #DIV/0!.
C19_Witness ==
    /\ last.op = "evaluate"
    /\ last.formula = <<"=", "A", "1", "/", "B", "1">>
    /\ last.data[1][<<"A">>] = StrV(<<"7">>)
    /\ last.data[1][<<"B">>] = StrV(<<" ">>)
    /\ last.result = StrV(DivToken)

\* C20: the dependencies extracted from =SUM(c1r1:c2r2) are exactly the cells
\* of the rectangle between the two columns and the two rows, so that the four
\* ways of naming the rectangle by two corners give the same set.
C20_RangeExpansionIgnoresCornerOrder ==
    last.op = "extract"
        => last.dependencies =
            {CellRef(<<CornerColumns[c]>>, r) :
                c \in Min2(last.c1, last.c2)..Max2(last.c1, last.c2),
                r \in Min2(last.r1, last.r2)..Max2(last.r1, last.r2)}

\* The dependencies of =SUM(B2:A1) were extracted and are A1, A2, B1 and B2.
C20_Witness ==
    /\ last.op = "extract"
    /\ last.c1 = 2 /\ last.r1 = 2 /\ last.c2 = 1 /\ last.r2 = 1
    /\ last.dependencies = {CellRef(<<"A">>, 1), CellRef(<<"A">>, 2),
                            CellRef(<<"B">>, 1), CellRef(<<"B">>, 2)}

\* C21: a column name of letters A-Z converted to its number and back is the
\* name again, a number from 1 on converted to its name and back is the number
\* again, and A is 1, Z is 26, AA is 27.
C21_ColumnNumberRoundTrip ==
    /\ Len(last.converted) = 2 => last.value = last.given
    /\ (Len(last.converted) = 1 /\ last.given = StrV(<<"A">>)) => last.value = IntV(1)
    /\ (Len(last.converted) = 1 /\ last.given = StrV(<<"Z">>)) => last.value = IntV(26)
    /\ (Len(last.converted) = 1 /\ last.given = StrV(<<"A", "A">>))
            => last.value = IntV(27)

\* AZ was converted to 52 and 52 back to AZ.
C21_Witness ==
    /\ last.given = StrV(<<"A", "Z">>)
    /\ last.converted = <<IntV(52), StrV(<<"A", "Z">>)>>

\* C22: for every node N and every cell D of N.dependencies that is a node,
\* D.dependents contains N.
C22_DependentsMirrorDependencies ==
    \A N \in NodeSet(dependency_graph) :
        \A D \in dependency_graph.node[N].dependencies \cap NodeSet(dependency_graph) :
            N \in dependency_graph.node[D].dependents

\* The same when every dependency was a node at the time its dependent was added.
C22_MirrorWhenDependencyAddedFirst ==
    (\A N \in NodeSet(dependency_graph) :
        IndexOf(dependency_graph.nodes, N) >
            SetMax({0} \cup {IndexOf(dependency_graph.nodes, D) :
                        D \in dependency_graph.node[N].dependencies
                                \cap NodeSet(dependency_graph)}))
        => C22_DependentsMirrorDependencies

\* C23: right after a successful add_formula(coord, ...) the dirty set holds
\* coord and every node whose dependency set contains coord, directly or
\* through other nodes.
C23_AddMarksDependentsDirty ==
    (last.op = "add" /\ last.ok)
        => Grow(NodeEdges(dependency_graph), {last.cell})
                \subseteq dependency_graph.dirty_cells

\* Right after a successful add_formula(coord, ...) the dirty set holds coord.
C23_AddMarksCellDirty ==
    (last.op = "add" /\ last.ok) => last.cell \in dependency_graph.dirty_cells

\* C24: X is in adjacency_list[D] exactly when D is in
\* reverse_adjacency_list[X], and the dependency set of every node N is
\* reverse_adjacency_list[N].
C24_EdgeMapsConsistent ==
    /\ \A D \in Cells, X \in Cells :
            X \in dependency_graph.adjacency_list[D]
                <=> D \in dependency_graph.reverse_adjacency_list[X]
    /\ \A N \in NodeSet(dependency_graph) :
            dependency_graph.node[N].dependencies
                = dependency_graph.reverse_adjacency_list[N]

\* The same along the behaviours in which the dependents of every node mirror
\* the dependency sets throughout.
C24_ConsistentWhileDependentsMirror ==
    [](C22_DependentsMirrorDependencies) => [](C24_EdgeMapsConsistent)

\* C25: after every sequence of add_formula calls, accepted, rejected or
\* replacing, has_circular_dependency() returns False.
C25_NoCycleIsEverReported ==
    ~HasCircularDependency(dependency_graph).has_cycles

\* A replacement was rejected while two other nodes were in the graph, and
\* has_circular_dependency() returns False.
C25_Witness ==
    /\ last.op = "add" /\ last.replaced /\ ~last.ok
    /\ Len(dependency_graph.nodes) = 2
    /\ ~HasCircularDependency(dependency_graph).has_cycles

\* C26: every coordinate returned by get_evaluation_order() is a node of the
\* graph and none appears twice.
C26_OrderHoldsCurrentNodesOnce ==
    /\ Range(GetEvaluationOrder(dependency_graph)) \subseteq NodeSet(dependency_graph)
    /\ NoDuplicates(GetEvaluationOrder(dependency_graph))

\* No coordinate appears twice in the evaluation order.
C26_OrderHasNoDuplicates ==
    NoDuplicates(GetEvaluationOrder(dependency_graph))

\* Right after an accepted add_formula the evaluation order holds nodes only.
C26_OrderHoldsNodesAfterAcceptedAdd ==
    (last.op = "add" /\ last.ok)
        => Range(GetEvaluationOrder(dependency_graph)) \subseteq NodeSet(dependency_graph)

\* C27: an add_formula call for a cell leaves the dependency set of every
\* other node alone, so that the dependency set of every node is the one the
\* node was most recently added with.
C27_DependenciesAreAsAdded ==
    \A N \in NodeSet(dependency_graph) :
        dependency_graph.node[N].dependencies = added[N]

\* A call for a cell that has no node leaves the dependency set of every other
\* node alone.
C27_NewAddLeavesOtherNodesAlone ==
    [][(last'.op = "add" /\ ~last'.replaced)
        => \A N \in NodeSet(dependency_graph) \ {last'.cell} :
              /\ N \in NodeSet(dependency_graph')
              /\ dependency_graph'.node[N].dependencies
                    = dependency_graph.node[N].dependencies]_vars

\* C28: in a pass that returns success = true, when a formula cell is
\* evaluated, every cell of the grid that its formula references holds an
\* input that is not a formula, or a result already written by the pass.
C28_NoRawFormulaIsRead ==
    \A r \in Done :
        req[r].result.success
        => \A i \in DOMAIN req[r].evals :
              req[r].evals[i].outcome \in {"evaluated", "error"}
              => \A cell \in ExtractDependencies(req[r].evals[i].formula) :
                    cell \in GridFormulaCells(req[r].data.rows, req[r].columns)
                    => cell \in req[r].evals[i].written

C30_SumReadsItsDependencies ==
    (last.op = "evaluate" /\ last.formula \in SumFormulas)
        => With(RangeOfCall(last.formula), LAMBDA m :
            /\ {c \in SummedCells(m, last.data) : InGrid(c, last.data, last.columns)}
                  = {c \in ExtractDependencies(last.formula) :
                        InGrid(c, last.data, last.columns)}
            /\ last.result =
                  EvaluateFormula(RangeFormula(m.end_col[1], m.end_row,
                                               m.start_col[1], m.start_row),
                                  last.data, last.columns))

\* The same for the ranges whose first corner is the top-left one: the cells
\* added up are the dependencies that lie in the grid.
C30_OrderedRangeReadsItsDependencies ==
    (/\ last.op = "evaluate"
     /\ last.formula \in SumFormulas
     /\ ColumnToNumber(RangeOfCall(last.formula).start_col)
            <= ColumnToNumber(RangeOfCall(last.formula).end_col)
     /\ RangeOfCall(last.formula).start_row <= RangeOfCall(last.formula).end_row)
        => {c \in SummedCells(RangeOfCall(last.formula), last.data) :
                InGrid(c, last.data, last.columns)}
              = {c \in ExtractDependencies(last.formula) :
                    InGrid(c, last.data, last.columns)}

====
